---- MODULE Spec2Model ----
(***************************************************************************)
(* The custom-resource handlers of ericbellavance.com:                     *)
(*   "refactored"  the certificate handler of src/unnamed/part_003         *)
(*   "deployed"    the certificate handler of                              *)
(*                 src/src/functions/dnscertificatevalidation.ts           *)
(*   "alias"       the alias-record handler of                             *)
(*                 src/src/functions/crossaccountdnsrecords.ts             *)
(* pc[i] names the call or sleep invocation i has issued and awaits.  One   *)
(* step of the model is the answer to it and the stretch of synchronous    *)
(* handler code that follows, up to the next call issued.  The services    *)
(* (certificate authority, token service, DNS service) answer              *)
(* nondeterministically.                                                   *)
(***************************************************************************)
EXTENDS Naturals, Integers, Sequences, FiniteSets, TLC

VARIABLES
  live,        \* the invocations of this behaviour
  handlerOf,   \* handlerOf[i]: the handler module invocation i runs
  event,       \* event[i]: the lifecycle event invocation i received
  pc,          \* pc[i]: the await point invocation i is at
  loc,         \* loc[i]: the local variables of invocation i
  hist,        \* hist[i]: the external calls invocation i has issued
  acmClient,   \* acmClient[h]: module-scope ACM client of handler module h
  stsClient,   \* stsClient[h]: module-scope STS client of handler module h
  certs,       \* the certificates that exist at the certificate authority
  dns          \* the record sets that exist at the DNS service

vars == <<live, handlerOf, event, pc, loc, hist, acmClient, stsClient, certs, dns>>

----------------------------------------------------------------------------
(* Values *)

\* JavaScript's undefined, for string-valued places
Undefined == "undefined"
\* An optional value: <<>> when absent, <<v>> when present
None == <<>>
Some(v) == <<v>>
IsSome(o) == Len(o) = 1
Get(o) == o[1]

\* Bounds of the model
MaxSans == 2

CERTIFICATE_POLLING_INTERVAL == 5000
CERTIFICATE_TIMEOUT == 50000
V1_POLLING_INTERVAL == 5000
V1_TIMEOUT == 50000
V2_RECORD_TTL == 300
V1_RECORD_TTL == 300

Handlers == {"refactored", "deployed", "alias"}
CertHandlers == {"refactored", "deployed"}
RequestTypes == {"Create", "Update", "Delete", "Replace"}

DomainNames == {"dev.example.com", "example.org"}
AltNames == {"www.example.com", "notexample.com"}
Region == "us-east-1"
OtherRegion == "eu-west-1"
RoleArn == "arn:aws:iam::111111111111:role/dns"
CloudfrontUrl == "d111.cloudfront.net"
OldArn == "arn:aws:acm:old"
NewArn(i) == IF i = 1 THEN "arn:aws:acm:new1" ELSE "arn:aws:acm:new2"

\* Sequences over S without repetition, of length at most n
DistinctSeqs(S, n) ==
  {s \in UNION {[1..k -> S] : k \in 0..n} :
     \A a, b \in 1..Len(s) : a # b => s[a] # s[b]}

SanLists == DistinctSeqs(AltNames, MaxSans)

\* ResourceProperties of an event (interface ResourceProperties)
Props(h) ==
  [DomainName : DomainNames,
   SubjectAlternativeNames : {Some(s) : s \in SanLists},
   CrossAccountRoleArn : {RoleArn},
   CloudfrontCertificateRegion : {IF h = "alias" THEN Undefined ELSE Region},
   CloudfrontURL : {IF h = "alias" THEN CloudfrontUrl ELSE Undefined}]

\* A lifecycle event (interface Event).  OldResourceProperties accompanies
\* Update events only (the alias-record handler's Event has no such field),
\* PhysicalResourceId accompanies Update and Delete: it is what the handler
\* returned for the resource before, an ARN or a domain name.
Events(h) ==
  LET P == Props(h)
      olds == IF h = "alias" THEN {None} ELSE {None} \cup {Some(o) : o \in P}
      ids == IF h = "alias" THEN DomainNames ELSE {Undefined, OldArn}
  IN
  [RequestType : {"Create", "Replace"}, ResourceProperties : P,
   OldResourceProperties : {None}, PhysicalResourceId : {Undefined}]
  \cup
  [RequestType : {"Update"}, ResourceProperties : P,
   OldResourceProperties : olds, PhysicalResourceId : ids]
  \cup
  [RequestType : {"Delete"}, ResourceProperties : P,
   OldResourceProperties : {None}, PhysicalResourceId : ids]

----------------------------------------------------------------------------
(* JavaScript library functions the handlers use *)

\* String.prototype.endsWith
EndsWith(s, t) ==
  Len(t) <= Len(s) /\ SubSeq(s, Len(s) - Len(t) + 1, Len(s)) = t

\* The positions at which pat occurs in s
Occurrences(s, pat) ==
  {k \in 1..(Len(s) + 1) :
     k + Len(pat) - 1 <= Len(s) /\ SubSeq(s, k, k + Len(pat) - 1) = pat}

\* String.prototype.replace with a string pattern: the first occurrence only
Replace(s, pat, by) ==
  LET occ == Occurrences(s, pat) IN
  IF occ = {} THEN s
  ELSE LET k == CHOOSE m \in occ : \A n \in occ : m <= n
       IN SubSeq(s, 1, k - 1) \o by \o SubSeq(s, k + Len(pat), Len(s))

\* Array.prototype.join
RECURSIVE Join(_, _)
Join(seq, sep) ==
  IF Len(seq) = 0 THEN ""
  ELSE IF Len(seq) = 1 THEN seq[1]
  ELSE seq[1] \o sep \o Join(Tail(seq), sep)

\* JSON.stringify of an array of strings (none of them needs escaping)
JSONStringify(seq) ==
  "[" \o Join([k \in 1..Len(seq) |-> "\"" \o seq[k] \o "\""], ",") \o "]"

\* Record r with the fields of s overwritten
Upd(r, s) == [k \in DOMAIN r |-> IF k \in DOMAIN s THEN s[k] ELSE r[k]]
NoUpd == <<>>
----------------------------------------------------------------------------
(* The services the handlers call *)

\* Hosted zones of the DNS account (HostedZone of @aws-sdk/client-route-53)
ZoneCom == [Id |-> "/hostedzone/Z1", Name |-> "com."]
ZoneExample == [Id |-> "/hostedzone/Z2", Name |-> "example.com."]
\* What ListHostedZones may list
ZoneLists == {<<>>, <<ZoneCom, ZoneExample>>, <<ZoneExample, ZoneCom>>}

\* The DNS record the certificate authority asks for to validate domain d
ValidationRecord(d) ==
  [Name |-> "_acme." \o d \o ".", Type |-> "CNAME", Value |-> "_token." \o d]

\* The DomainValidationOptions of a certificate for the domains ds, one per
\* domain in order: the authority fills in the resource records some time
\* after the request ("pending": none yet, "firstOnly": only the first one,
\* "ready": all of them)
OptionsFor(ds, kind) ==
  IF kind = "empty" THEN <<>>
  ELSE [k \in 1..Len(ds) |->
          [DomainName |-> ds[k],
           ResourceRecord |->
             IF kind = "ready" \/ (kind = "firstOnly" /\ k = 1)
             THEN Some(ValidationRecord(ds[k])) ELSE None]]

\* Answers of the services.  "error" is a rejected call.
RequestAnswers == {"error", "noArn", "ok"}
DeleteAnswers == {"error", "ok"}
OptionsAnswers == {"error", "noOptions", "empty", "pending", "firstOnly", "ready"}
\* "noStatus": a response without Certificate.Status
StatusAnswers == {"error", "noStatus", "PENDING_VALIDATION", "ISSUED", "FAILED"}
AssumeAnswers == {"error", "noCredentials", "incomplete", "ok"}
ListAnswers == {None} \cup {Some(z) : z \in ZoneLists}   \* None: rejected
ChangeAnswers == {"error", "ok"}

\* The DNS service identifies a zone by its id, with or without the prefix
ZoneKey(id) == Replace(id, "/hostedzone/", "")
\* Mutant of Upsert: a record set that is already there is removed
Upsert_toggling(records, id, r) ==
  LET new == [zone |-> ZoneKey(id), set |-> r]
  IN IF new \in records THEN records \ {new} ELSE records \cup {new}

\* UPSERT of record set r in zone id: create if absent, overwrite if present
Upsert(records, id, r) ==
  LET key(x) == <<x.zone, x.set.Name, x.set.Type>>
      new == [zone |-> ZoneKey(id), set |-> r]
  IN {x \in records : key(x) # key(new)} \cup {new}

----------------------------------------------------------------------------
(* State *)

InitLoc ==
  [certificateArn |-> Undefined, oldCertificateArn |-> Undefined,
   validationOptions |-> <<>>, credentials |-> "none", hostedZones |-> <<>>,
   idx |-> 0, certificateStatus |-> Undefined, elapsed |-> 0,
   createdRecords |-> <<>>, result |-> None, error |-> Undefined]

\* The calls answered so far; rejected: those the service rejected, in
\* order; clients: the clients the calls were sent through, the call in
\* flight included; order: the kinds of call issued, in order, a run of
\* calls of one kind noted once
InitHist ==
  [requests |-> <<>>, requestedArn |-> Undefined,
   deletes |-> <<>>, deleteAnswers |-> <<>>,
   describeStatus |-> 0, described |-> {},
   lastStatus |-> Undefined,
   assumeRole |-> 0, listHostedZones |-> 0, changes |-> <<>>,
   rejected |-> <<>>, clients |-> {}, order |-> <<>>]

Terminal == {"done", "failed"}

\* The calls sent through the module-scope clients
AcmCalls ==
  {"requestCertificate", "deleteOld", "describeOptions", "describeStatus",
   "deleteCertificate"}
StsCalls == {"assumeRole"}
\* The client invocation i sends call p through: the one the module-scope
\* variable holds when the call is issued, which for the first call of an
\* invocation is the one exports.handler has just assigned
Via(i, p) ==
  LET acm == IF pc[i] = "start" THEN acmClient' ELSE acmClient
      sts == IF pc[i] = "start" THEN stsClient' ELSE stsClient
  IN IF p \in AcmCalls THEN {acm[handlerOf[i]]}
     ELSE IF p \in StsCalls THEN {sts[handlerOf[i]]}
     ELSE {}
\* The await points that are calls to a service
Calls == AcmCalls \cup StsCalls \cup {"listHostedZones", "changeRecords"}
\* The kinds of call issued, call p issued after them
Issue(order, p) ==
  IF p \in Calls /\ (order = <<>> \/ order[Len(order)] # p)
  THEN Append(order, p) ELSE order
\* Invocation i goes on, with locals l and calls h, up to p: the call it
\* issues and awaits next, a sleep, or its end
To(i, p, l, h) ==
  /\ pc' = [pc EXCEPT ![i] = p]
  /\ loc' = [loc EXCEPT ![i] = Upd(@, l)]
  /\ hist' = [hist EXCEPT ![i] =
               Upd(Upd(@, h), [clients |-> hist[i].clients \cup Via(i, p),
                               order |-> Issue(hist[i].order, p)])]
Merge(a, b) ==
  [k \in DOMAIN a \cup DOMAIN b |-> IF k \in DOMAIN b THEN b[k] ELSE a[k]]
\* The invocation fails with error e
Throw(i, e, l, h) == To(i, "failed", Merge(l, [error |-> e]), h)
\* The invocation returns payload r (None: it returns undefined)
Return(i, r, l, h) == To(i, "done", Merge(l, [result |-> r]), h)
\* The error of a call the service rejected
Rejected(call) == call \o " rejected"
\* The history h of the calls issued in a step, the call rejected noted
Answered(i, call, answer, h) ==
  IF answer = "error"
  THEN Merge(h, [rejected |-> Append(hist[i].rejected, call)])
  ELSE h

\* subjectAlternativeNames of the handlers: SubjectAlternativeNames = []
SansOf(props) ==
  IF IsSome(props.SubjectAlternativeNames)
  THEN Get(props.SubjectAlternativeNames) ELSE <<>>

\* The domains of the certificate invocation i works on
CertDomains(i) ==
  <<event[i].ResourceProperties.DomainName>> \o SansOf(event[i].ResourceProperties)

Inc(n) == n + 1
----------------------------------------------------------------------------
(* The refactored certificate handler, src/unnamed/part_003 *)

V2_domainChanged(oldProps, domainName) == oldProps.DomainName # domainName

V2_subjectAlternativeNamesChanged(oldProps, subjectAlternativeNames) ==
  JSONStringify(SansOf(oldProps)) # JSONStringify(subjectAlternativeNames)

\* validationOptions[0]?.ResourceRecord?.Value is defined
V2_hasRecordValue(validationOptions) ==
  Len(validationOptions) > 0 /\ IsSome(validationOptions[1].ResourceRecord)

\* findHostedZoneId: None is null
V2_findHostedZoneId(hostedZones, domain) ==
  LET domainWithDot == domain \o "."
      found == {k \in 1..Len(hostedZones) :
                  /\ hostedZones[k].Name # ""
                  /\ EndsWith(domainWithDot, hostedZones[k].Name)}
  IN IF found = {} THEN None
     ELSE LET first == CHOOSE k \in found : \A m \in found : k <= m
              id == Replace(hostedZones[first].Id, "/hostedzone/", "")
          IN IF id = "" THEN None ELSE Some(id)

\* Mutant of V2_nextValidation: the loop ends at an option it cannot write
V2_nextValidation_stopping(validationOptions, hostedZones, k) ==
  IF k > Len(validationOptions) THEN 0
  ELSE IF \/ ~IsSome(validationOptions[k].ResourceRecord)
          \/ ~IsSome(V2_findHostedZoneId(hostedZones, validationOptions[k].DomainName))
       THEN 0
  ELSE k

\* The loop of updateDnsValidationRecords from option k on: the index of the
\* next option for which a record set is changed, 0 when there is none
RECURSIVE V2_nextValidation(_, _, _)
V2_nextValidation(validationOptions, hostedZones, k) ==
  IF k > Len(validationOptions) THEN 0
  ELSE IF ~IsSome(validationOptions[k].ResourceRecord)
       THEN V2_nextValidation(validationOptions, hostedZones, k + 1)
  ELSE IF ~IsSome(V2_findHostedZoneId(hostedZones, validationOptions[k].DomainName))
       THEN V2_nextValidation(validationOptions, hostedZones, k + 1)
  ELSE k

\* Mutant of V2_finish: the final status is not looked at
V2_finish_unchecked(i, finalStatus, l, h) ==
  Return(i, Some([PhysicalResourceId |-> loc[i].certificateArn,
                  Data |-> Some([CertificateArn |-> loc[i].certificateArn])]),
         l, h)

\* Mutant of V2_finish: the payload names the previous certificate
V2_finish_previousArn(i, finalStatus, l, h) ==
  IF finalStatus # "ISSUED"
  THEN Throw(i, "Certificate validation failed with status: " \o finalStatus, l, h)
  ELSE Return(i, Some([PhysicalResourceId |-> loc[i].oldCertificateArn,
                       Data |-> Some([CertificateArn |-> loc[i].oldCertificateArn])]),
              l, h)

\* handleCertificateValidation after waitForCertificateValidation returned
V2_finish(i, finalStatus, l, h) ==
  IF finalStatus # "ISSUED"
  THEN Throw(i, "Certificate validation failed with status: " \o finalStatus, l, h)
  ELSE Return(i, Some([PhysicalResourceId |-> loc[i].certificateArn,
                       Data |-> Some([CertificateArn |-> loc[i].certificateArn])]),
              l, h)

\* waitForCertificateValidation up to its first DescribeCertificate call
V2_startWait(i, l, h) ==
  LET certificateStatus == "PENDING_VALIDATION"
      elapsed == 0
      started == Merge(l, [certificateStatus |-> certificateStatus, elapsed |-> elapsed])
  IN IF certificateStatus # "ISSUED" /\ elapsed < CERTIFICATE_TIMEOUT
     THEN To(i, "describeStatus", started, h)
     ELSE V2_finish(i, certificateStatus, started, h)

\* Mutant of V2_handleCertificateUpdate: an Update without old properties
\* counts as a changed domain set
V2_handleCertificateUpdate_lenient(i, domainName, subjectAlternativeNames) ==
  LET oldCertificateArn == event[i].PhysicalResourceId
      oldProps == event[i].OldResourceProperties
  IN IF /\ IsSome(oldProps)
        /\ ~V2_domainChanged(Get(oldProps), domainName)
        /\ ~V2_subjectAlternativeNamesChanged(Get(oldProps), subjectAlternativeNames)
     THEN To(i, "describeOptions",
             [oldCertificateArn |-> oldCertificateArn,
              certificateArn |-> oldCertificateArn], NoUpd)
     ELSE To(i, "requestCertificate", [oldCertificateArn |-> oldCertificateArn], NoUpd)

\* handleCertificateUpdate up to its first call
V2_handleCertificateUpdate(i, domainName, subjectAlternativeNames) ==
  LET oldCertificateArn == event[i].PhysicalResourceId
      oldProps == event[i].OldResourceProperties
  IN IF ~IsSome(oldProps)
     THEN Throw(i, "OldResourceProperties is required for Update operation", NoUpd, NoUpd)
     ELSE IF /\ ~V2_domainChanged(Get(oldProps), domainName)
             /\ ~V2_subjectAlternativeNamesChanged(Get(oldProps), subjectAlternativeNames)
     THEN To(i, "describeOptions",
             [oldCertificateArn |-> oldCertificateArn,
              certificateArn |-> oldCertificateArn], NoUpd)
     ELSE To(i, "requestCertificate", [oldCertificateArn |-> oldCertificateArn], NoUpd)

\* handleCertificateValidation up to its first call
V2_handleCertificateValidation(i, domainName, subjectAlternativeNames) ==
  IF event[i].RequestType = "Update"
  THEN V2_handleCertificateUpdate(i, domainName, subjectAlternativeNames)
  ELSE To(i, "requestCertificate", NoUpd, NoUpd)

\* Mutant of V2_handler: a Delete event is not returned early
V2_handler_noDeleteBranch(i) ==
  /\ pc[i] = "start" /\ handlerOf[i] = "refactored"
  /\ LET requestType == event[i].RequestType
         domainName == event[i].ResourceProperties.DomainName
         subjectAlternativeNames == SansOf(event[i].ResourceProperties)
         cloudfrontCertificateRegion ==
           event[i].ResourceProperties.CloudfrontCertificateRegion
     IN /\ acmClient' = [acmClient EXCEPT !["refactored"] = cloudfrontCertificateRegion]
        /\ stsClient' = [stsClient EXCEPT !["refactored"] = cloudfrontCertificateRegion]
        /\ IF requestType \notin {"Create", "Update", "Delete"}
           THEN Throw(i, "Unsupported request type: " \o requestType, NoUpd, NoUpd)
           ELSE V2_handleCertificateValidation(i, domainName, subjectAlternativeNames)
  /\ UNCHANGED <<live, handlerOf, event, certs, dns>>

\* Mutant of V2_handler: the request type is not validated
V2_handler_unvalidated(i) ==
  /\ pc[i] = "start" /\ handlerOf[i] = "refactored"
  /\ LET requestType == event[i].RequestType
         domainName == event[i].ResourceProperties.DomainName
         subjectAlternativeNames == SansOf(event[i].ResourceProperties)
         cloudfrontCertificateRegion ==
           event[i].ResourceProperties.CloudfrontCertificateRegion
     IN /\ acmClient' = [acmClient EXCEPT !["refactored"] = cloudfrontCertificateRegion]
        /\ stsClient' = [stsClient EXCEPT !["refactored"] = cloudfrontCertificateRegion]
        /\ IF requestType = "Delete"
           THEN Return(i, Some([PhysicalResourceId |-> event[i].PhysicalResourceId,
                                Data |-> None]), NoUpd, NoUpd)
           ELSE V2_handleCertificateValidation(i, domainName, subjectAlternativeNames)
  /\ UNCHANGED <<live, handlerOf, event, certs, dns>>

\* exports.handler
V2_handler(i) ==
  /\ pc[i] = "start" /\ handlerOf[i] = "refactored"
  /\ LET requestType == event[i].RequestType
         domainName == event[i].ResourceProperties.DomainName
         subjectAlternativeNames == SansOf(event[i].ResourceProperties)
         cloudfrontCertificateRegion ==
           event[i].ResourceProperties.CloudfrontCertificateRegion
     IN /\ acmClient' = [acmClient EXCEPT !["refactored"] = cloudfrontCertificateRegion]
        /\ stsClient' = [stsClient EXCEPT !["refactored"] = cloudfrontCertificateRegion]
        /\ IF requestType \notin {"Create", "Update", "Delete"}
           THEN Throw(i, "Unsupported request type: " \o requestType, NoUpd, NoUpd)
           ELSE IF requestType = "Delete"
           THEN Return(i, Some([PhysicalResourceId |-> event[i].PhysicalResourceId,
                                Data |-> None]), NoUpd, NoUpd)
           ELSE V2_handleCertificateValidation(i, domainName, subjectAlternativeNames)
  /\ UNCHANGED <<live, handlerOf, event, certs, dns>>

\* requestCertificate, and its callers up to their next call
V2_requestCertificate(i) ==
  /\ pc[i] = "requestCertificate" /\ handlerOf[i] = "refactored"
  /\ \E answer \in RequestAnswers :
       LET domainName == event[i].ResourceProperties.DomainName
           subjectAlternativeNames == SansOf(event[i].ResourceProperties)
           requestCertificateParams ==
             [DomainName |-> domainName,
              ValidationMethod |-> "DNS",
              SubjectAlternativeNames |->
                IF Len(subjectAlternativeNames) > 0
                THEN Some(subjectAlternativeNames) ELSE None]
           issued == [requests |-> Append(hist[i].requests, requestCertificateParams)]
       IN CASE answer = "error" ->
                 /\ Throw(i, Rejected("RequestCertificate"), NoUpd,
                          Answered(i, "RequestCertificate", "error", issued))
                 /\ UNCHANGED certs
            [] answer = "noArn" ->
                 /\ Throw(i, "Failed to get certificate ARN", NoUpd, issued)
                 /\ UNCHANGED certs
            [] answer = "ok" ->
                 /\ certs' = certs \cup {NewArn(i)}
                 /\ To(i, IF /\ event[i].RequestType = "Update"
                             /\ loc[i].oldCertificateArn # Undefined
                          THEN "deleteOld" ELSE "describeOptions",
                       [certificateArn |-> NewArn(i)],
                       Merge(issued, [requestedArn |-> NewArn(i)]))
  /\ UNCHANGED <<live, handlerOf, event, acmClient, stsClient, dns>>

\* handleCertificateUpdate: the deletion of the old certificate
V2_deleteOldCertificate(i) ==
  /\ pc[i] = "deleteOld" /\ handlerOf[i] = "refactored"
  /\ \E answer \in DeleteAnswers :
       LET oldCertificateArn == loc[i].oldCertificateArn IN
       /\ answer = "ok" => oldCertificateArn \in certs
       /\ certs' = IF answer = "ok" THEN certs \ {oldCertificateArn} ELSE certs
       /\ To(i, "describeOptions", NoUpd,
             Answered(i, "DeleteCertificate", answer,
               [deletes |-> Append(hist[i].deletes, oldCertificateArn),
                deleteAnswers |-> Append(hist[i].deleteAnswers, answer)]))
  /\ UNCHANGED <<live, handlerOf, event, acmClient, stsClient, dns>>

\* getCertificateValidationOptions: one DescribeCertificate call
V2_getCertificateValidationOptions(i) ==
  /\ pc[i] = "describeOptions" /\ handlerOf[i] = "refactored"
  /\ \E answer \in OptionsAnswers :
       LET certificateArn == loc[i].certificateArn
           issued == [described |-> hist[i].described \cup {certificateArn}]
           validationOptions == OptionsFor(CertDomains(i), answer)
       IN /\ certificateArn \notin certs => answer = "error"
          /\ CASE answer = "error" ->
                    Throw(i, Rejected("DescribeCertificate"), NoUpd,
                          Answered(i, "DescribeCertificate", "error", issued))
               [] answer = "noOptions" ->
                    Throw(i, "No domain validation options found for certificate",
                          NoUpd, issued)
               [] OTHER ->
                    To(i, IF V2_hasRecordValue(validationOptions)
                          THEN "assumeRole" ELSE "sleepOptions",
                       [validationOptions |-> validationOptions], issued)
  /\ UNCHANGED <<live, handlerOf, event, acmClient, stsClient, certs, dns>>

\* getCertificateValidationOptions: the sleep between two polls
V2_sleepOptions(i) ==
  /\ pc[i] = "sleepOptions" /\ handlerOf[i] = "refactored"
  /\ To(i, "describeOptions", NoUpd, NoUpd)
  /\ UNCHANGED <<live, handlerOf, event, acmClient, stsClient, certs, dns>>

\* Mutant of V2_assumeCrossAccountRole: the credentials are not looked at
V2_assumeCrossAccountRole_unchecked(i) ==
  /\ pc[i] = "assumeRole" /\ handlerOf[i] = "refactored"
  /\ \E answer \in AssumeAnswers :
       LET issued == [assumeRole |-> Inc(hist[i].assumeRole)] IN
       CASE answer = "error" -> Throw(i, Rejected("AssumeRole"), NoUpd,
                                      Answered(i, "AssumeRole", "error", issued))
         [] OTHER ->
              To(i, "listHostedZones",
                 [credentials |-> IF answer = "ok" THEN "complete" ELSE "incomplete"],
                 issued)
  /\ UNCHANGED <<live, handlerOf, event, acmClient, stsClient, certs, dns>>

\* assumeCrossAccountRole
V2_assumeCrossAccountRole(i) ==
  /\ pc[i] = "assumeRole" /\ handlerOf[i] = "refactored"
  /\ \E answer \in AssumeAnswers :
       LET issued == [assumeRole |-> Inc(hist[i].assumeRole)] IN
       CASE answer = "error" -> Throw(i, Rejected("AssumeRole"), NoUpd,
                                      Answered(i, "AssumeRole", "error", issued))
         [] answer \in {"noCredentials", "incomplete"} ->
              Throw(i, "Failed to assume role - missing credentials", NoUpd, issued)
         [] answer = "ok" ->
              To(i, "listHostedZones", [credentials |-> "complete"], issued)
  /\ UNCHANGED <<live, handlerOf, event, acmClient, stsClient, certs, dns>>

\* handleCertificateValidation: ListHostedZones, and updateDnsValidationRecords
\* up to its first call
V2_listHostedZones(i) ==
  /\ pc[i] = "listHostedZones" /\ handlerOf[i] = "refactored"
  /\ \E answer \in ListAnswers :
       LET issued == [listHostedZones |-> Inc(hist[i].listHostedZones)] IN
       IF ~IsSome(answer)
       THEN Throw(i, Rejected("ListHostedZones"), NoUpd,
                  Answered(i, "ListHostedZones", "error", issued))
       ELSE LET hostedZones == Get(answer)
                k == V2_nextValidation(loc[i].validationOptions, hostedZones, 1)
            IN IF k = 0
               THEN V2_startWait(i, [hostedZones |-> hostedZones], issued)
               ELSE To(i, "changeRecords",
                       [hostedZones |-> hostedZones, idx |-> k], issued)
  /\ UNCHANGED <<live, handlerOf, event, acmClient, stsClient, certs, dns>>

\* updateDnsValidationRecords: one ChangeResourceRecordSets call
V2_updateDnsValidationRecords(i) ==
  /\ pc[i] = "changeRecords" /\ handlerOf[i] = "refactored"
  /\ \E answer \in ChangeAnswers :
       LET validation == loc[i].validationOptions[loc[i].idx]
           validationRecord == Get(validation.ResourceRecord)
           hostedZoneId ==
             Get(V2_findHostedZoneId(loc[i].hostedZones, validation.DomainName))
           change ==
             [HostedZoneId |-> hostedZoneId,
              Action |-> "UPSERT",
              ResourceRecordSet |->
                [Name |-> validationRecord.Name,
                 Type |-> validationRecord.Type,
                 TTL |-> Some(V2_RECORD_TTL),
                 ResourceRecords |-> <<validationRecord.Value>>,
                 AliasTarget |-> None]]
           issued == [changes |-> Append(hist[i].changes, change)]
           k == V2_nextValidation(loc[i].validationOptions, loc[i].hostedZones,
                                  loc[i].idx + 1)
       IN IF answer = "error"
          THEN /\ Throw(i, Rejected("ChangeResourceRecordSets"), NoUpd,
                        Answered(i, "ChangeResourceRecordSets", "error", issued))
               /\ UNCHANGED dns
          ELSE /\ dns' = Upsert(dns, hostedZoneId, change.ResourceRecordSet)
               /\ IF k = 0
                  THEN V2_startWait(i, NoUpd, issued)
                  ELSE To(i, "changeRecords", [idx |-> k], issued)
  /\ UNCHANGED <<live, handlerOf, event, acmClient, stsClient, certs>>

\* waitForCertificateValidation: one DescribeCertificate call
V2_waitForCertificateValidation(i) ==
  /\ pc[i] = "describeStatus" /\ handlerOf[i] = "refactored"
  /\ \E answer \in StatusAnswers :
       LET certificateArn == loc[i].certificateArn
           issued == [describeStatus |-> Inc(hist[i].describeStatus),
                      described |-> hist[i].described \cup {certificateArn}]
           observed == Merge(issued, [lastStatus |-> answer])
       IN /\ certificateArn \notin certs => answer = "error"
          /\ CASE answer = "error" ->
                    Throw(i, Rejected("DescribeCertificate"), NoUpd,
                          Answered(i, "DescribeCertificate", "error", issued))
               [] answer = "noStatus" ->
                    Throw(i, "Failed to get certificate status", NoUpd, issued)
               [] answer = "ISSUED" ->
                    V2_finish(i, answer, [certificateStatus |-> answer], observed)
               [] OTHER ->
                    To(i, "sleepStatus", [certificateStatus |-> answer], observed)
  /\ UNCHANGED <<live, handlerOf, event, acmClient, stsClient, certs, dns>>

\* Mutant of V2_sleepStatus: the budget admits one more round
V2_sleepStatus_late(i) ==
  /\ pc[i] = "sleepStatus" /\ handlerOf[i] = "refactored"
  /\ LET elapsed == loc[i].elapsed + CERTIFICATE_POLLING_INTERVAL
         certificateStatus == loc[i].certificateStatus
     IN IF certificateStatus # "ISSUED" /\ elapsed <= CERTIFICATE_TIMEOUT
        THEN To(i, "describeStatus", [elapsed |-> elapsed], NoUpd)
        ELSE V2_finish(i, certificateStatus, [elapsed |-> elapsed], NoUpd)
  /\ UNCHANGED <<live, handlerOf, event, acmClient, stsClient, certs, dns>>

\* waitForCertificateValidation: the sleep, and the loop condition after it
V2_sleepStatus(i) ==
  /\ pc[i] = "sleepStatus" /\ handlerOf[i] = "refactored"
  /\ LET elapsed == loc[i].elapsed + CERTIFICATE_POLLING_INTERVAL
         certificateStatus == loc[i].certificateStatus
     IN IF certificateStatus # "ISSUED" /\ elapsed < CERTIFICATE_TIMEOUT
        THEN To(i, "describeStatus", [elapsed |-> elapsed], NoUpd)
        ELSE V2_finish(i, certificateStatus, [elapsed |-> elapsed], NoUpd)
  /\ UNCHANGED <<live, handlerOf, event, acmClient, stsClient, certs, dns>>

----------------------------------------------------------------------------
(* The deployed certificate handler,                                       *)
(* src/src/functions/dnscertificatevalidation.ts                           *)

V1_domainChanged(oldProps, domainName) == oldProps.DomainName # domainName

V1_subjectAlternativeNamesChanged(oldProps, subjectAlternativeNames) ==
  JSONStringify(SansOf(oldProps)) # JSONStringify(subjectAlternativeNames)

\* validationOptions[0]?.ResourceRecord?.Value is defined
V1_hasRecordValue(validationOptions) ==
  Len(validationOptions) > 0 /\ IsSome(validationOptions[1].ResourceRecord)

\* findHostedZoneId: None is null
V1_findHostedZoneId(hostedZones, domain) ==
  LET domainWithDot == domain \o "."
      found == {k \in 1..Len(hostedZones) :
                  EndsWith(domainWithDot, hostedZones[k].Name)}
  IN IF found = {} THEN None
     ELSE LET first == CHOOSE k \in found : \A m \in found : k <= m
          IN Some(hostedZones[first].Id)

\* The validation record loop from option k on: the index of the next option
\* for which a record set is changed, 0 when there is none, -1 when the loop
\* reads the Name of a resource record that is undefined (a TypeError)
RECURSIVE V1_nextValidation(_, _, _)
V1_nextValidation(validationOptions, hostedZones, k) ==
  IF k > Len(validationOptions) THEN 0
  ELSE IF ~IsSome(V1_findHostedZoneId(hostedZones, validationOptions[k].DomainName))
       THEN V1_nextValidation(validationOptions, hostedZones, k + 1)
  ELSE IF ~IsSome(validationOptions[k].ResourceRecord) THEN -1
  ELSE k

\* The handler after waitForCertificateValidation returned
V1_finish(i, finalStatus, l, h) ==
  Return(i, Some([PhysicalResourceId |-> loc[i].certificateArn,
                  Data |-> Some([CertificateArn |-> loc[i].certificateArn,
                                 OldCertificateArn |->
                                   IF loc[i].oldCertificateArn # Undefined
                                   THEN loc[i].oldCertificateArn ELSE "N/A",
                                 CertificateStatus |-> finalStatus])]),
         l, h)

\* waitForCertificateValidation up to its first DescribeCertificate call
V1_startWait(i, l, h) ==
  LET certificateStatus == "PENDING_VALIDATION"
      elapsed == 0
      started == Merge(l, [certificateStatus |-> certificateStatus, elapsed |-> elapsed])
  IN IF certificateStatus # "ISSUED" /\ elapsed < V1_TIMEOUT
     THEN To(i, "describeStatus", started, h)
     ELSE V1_finish(i, certificateStatus, started, h)

\* The validation record loop, continued at option k
V1_continueLoop(i, k, l, h) ==
  IF k = -1 THEN Throw(i, "TypeError", l, h)
  ELSE IF k = 0 THEN V1_startWait(i, l, h)
  ELSE To(i, "changeRecords", Merge(l, [idx |-> k]), h)

\* exports.handler up to its first call
V1_handler(i) ==
  /\ pc[i] = "start" /\ handlerOf[i] = "deployed"
  /\ LET requestType == event[i].RequestType
         domainName == event[i].ResourceProperties.DomainName
         subjectAlternativeNames == SansOf(event[i].ResourceProperties)
         cloudfrontCertificateRegion ==
           event[i].ResourceProperties.CloudfrontCertificateRegion
         oldCertificateArn == event[i].PhysicalResourceId
         oldProps == event[i].OldResourceProperties
     IN /\ acmClient' = [acmClient EXCEPT !["deployed"] = cloudfrontCertificateRegion]
        /\ stsClient' = [stsClient EXCEPT !["deployed"] = cloudfrontCertificateRegion]
        /\ IF requestType = "Create"
           THEN To(i, "requestCertificate", NoUpd, NoUpd)
           ELSE IF requestType = "Update"
           THEN IF ~IsSome(oldProps)
                THEN Throw(i, "TypeError", [oldCertificateArn |-> oldCertificateArn], NoUpd)
                ELSE IF \/ V1_domainChanged(Get(oldProps), domainName)
                        \/ V1_subjectAlternativeNamesChanged(Get(oldProps),
                                                             subjectAlternativeNames)
                THEN To(i, "requestCertificate",
                        [oldCertificateArn |-> oldCertificateArn], NoUpd)
                ELSE To(i, "describeOptions",
                        [oldCertificateArn |-> oldCertificateArn,
                         certificateArn |-> oldCertificateArn], NoUpd)
           ELSE IF requestType = "Delete"
           THEN To(i, "deleteCertificate", NoUpd, NoUpd)
           ELSE Return(i, None, NoUpd, NoUpd)
  /\ UNCHANGED <<live, handlerOf, event, certs, dns>>

\* requestCertificate, and the handler up to its next call
V1_requestCertificate(i) ==
  /\ pc[i] = "requestCertificate" /\ handlerOf[i] = "deployed"
  /\ \E answer \in RequestAnswers :
       LET domainName == event[i].ResourceProperties.DomainName
           subjectAlternativeNames == SansOf(event[i].ResourceProperties)
           requestCertificateParams ==
             [DomainName |-> domainName,
              ValidationMethod |-> "DNS",
              SubjectAlternativeNames |->
                IF Len(subjectAlternativeNames) > 0
                THEN Some(subjectAlternativeNames) ELSE None]
           issued == [requests |-> Append(hist[i].requests, requestCertificateParams)]
           certificateArn == IF answer = "ok" THEN NewArn(i) ELSE Undefined
       IN IF answer = "error"
          THEN /\ Throw(i, Rejected("RequestCertificate"), NoUpd,
                        Answered(i, "RequestCertificate", "error", issued))
               /\ UNCHANGED certs
          ELSE /\ certs' = IF answer = "ok" THEN certs \cup {NewArn(i)} ELSE certs
               /\ To(i, IF /\ event[i].RequestType = "Update"
                           /\ loc[i].oldCertificateArn # Undefined
                        THEN "deleteOld" ELSE "describeOptions",
                     [certificateArn |-> certificateArn],
                     Merge(issued, [requestedArn |-> certificateArn]))
  /\ UNCHANGED <<live, handlerOf, event, acmClient, stsClient, dns>>

\* Mutant of V1_deleteOldCertificate: a rejected deletion is rethrown
V1_deleteOldCertificate_rethrown(i) ==
  /\ pc[i] = "deleteOld" /\ handlerOf[i] = "deployed"
  /\ \E answer \in DeleteAnswers :
       LET oldCertificateArn == loc[i].oldCertificateArn
           issued ==
             Answered(i, "DeleteCertificate", answer,
               [deletes |-> Append(hist[i].deletes, oldCertificateArn),
                deleteAnswers |-> Append(hist[i].deleteAnswers, answer)])
       IN /\ answer = "ok" => oldCertificateArn \in certs
          /\ certs' = IF answer = "ok" THEN certs \ {oldCertificateArn} ELSE certs
          /\ IF answer = "error"
             THEN Throw(i, Rejected("DeleteCertificate"), NoUpd, issued)
             ELSE To(i, "describeOptions", NoUpd, issued)
  /\ UNCHANGED <<live, handlerOf, event, acmClient, stsClient, dns>>

\* The Update branch: the deletion of the old certificate
V1_deleteOldCertificate(i) ==
  /\ pc[i] = "deleteOld" /\ handlerOf[i] = "deployed"
  /\ \E answer \in DeleteAnswers :
       LET oldCertificateArn == loc[i].oldCertificateArn IN
       /\ answer = "ok" => oldCertificateArn \in certs
       /\ certs' = IF answer = "ok" THEN certs \ {oldCertificateArn} ELSE certs
       /\ To(i, "describeOptions", NoUpd,
             Answered(i, "DeleteCertificate", answer,
               [deletes |-> Append(hist[i].deletes, oldCertificateArn),
                deleteAnswers |-> Append(hist[i].deleteAnswers, answer)]))
  /\ UNCHANGED <<live, handlerOf, event, acmClient, stsClient, dns>>

\* Mutant of V1_describeOptions: the zones are listed without assuming the role
V1_describeOptions_noRole(i) ==
  /\ pc[i] = "describeOptions" /\ handlerOf[i] = "deployed"
  /\ \E answer \in OptionsAnswers :
       LET certificateArn == loc[i].certificateArn
           issued == [described |-> hist[i].described \cup {certificateArn}]
           validationOptions ==
             IF answer = "noOptions" THEN <<>> ELSE OptionsFor(CertDomains(i), answer)
       IN /\ certificateArn \notin certs => answer = "error"
          /\ IF answer = "error"
             THEN Throw(i, Rejected("DescribeCertificate"), NoUpd,
                        Answered(i, "DescribeCertificate", "error", issued))
             ELSE To(i, IF V1_hasRecordValue(validationOptions)
                        THEN "listHostedZones" ELSE "sleepOptions",
                     [validationOptions |-> validationOptions,
                      credentials |-> "complete"], issued)
  /\ UNCHANGED <<live, handlerOf, event, acmClient, stsClient, certs, dns>>

\* The validation-options loop: one DescribeCertificate call
V1_describeOptions(i) ==
  /\ pc[i] = "describeOptions" /\ handlerOf[i] = "deployed"
  /\ \E answer \in OptionsAnswers :
       LET certificateArn == loc[i].certificateArn
           issued == [described |-> hist[i].described \cup {certificateArn}]
           validationOptions ==
             IF answer = "noOptions" THEN <<>> ELSE OptionsFor(CertDomains(i), answer)
       IN /\ certificateArn \notin certs => answer = "error"
          /\ IF answer = "error"
             THEN Throw(i, Rejected("DescribeCertificate"), NoUpd,
                        Answered(i, "DescribeCertificate", "error", issued))
             ELSE To(i, IF V1_hasRecordValue(validationOptions)
                        THEN "assumeRole" ELSE "sleepOptions",
                     [validationOptions |-> validationOptions], issued)
  /\ UNCHANGED <<live, handlerOf, event, acmClient, stsClient, certs, dns>>

\* The validation-options loop: the sleep between two polls
V1_sleepOptions(i) ==
  /\ pc[i] = "sleepOptions" /\ handlerOf[i] = "deployed"
  /\ To(i, "describeOptions", NoUpd, NoUpd)
  /\ UNCHANGED <<live, handlerOf, event, acmClient, stsClient, certs, dns>>

\* assumeCrossAccountRole
V1_assumeCrossAccountRole(i) ==
  /\ pc[i] = "assumeRole" /\ handlerOf[i] = "deployed"
  /\ \E answer \in AssumeAnswers :
       LET issued == [assumeRole |-> Inc(hist[i].assumeRole)] IN
       CASE answer = "error" -> Throw(i, Rejected("AssumeRole"), NoUpd,
                                      Answered(i, "AssumeRole", "error", issued))
         [] answer = "noCredentials" -> Throw(i, "TypeError", NoUpd, issued)
         [] OTHER ->
              To(i, "listHostedZones",
                 [credentials |-> IF answer = "ok" THEN "complete" ELSE "incomplete"],
                 issued)
  /\ UNCHANGED <<live, handlerOf, event, acmClient, stsClient, certs, dns>>

\* ListHostedZones, and the validation record loop up to its first call.
\* The DNS service rejects a call made with incomplete credentials.
V1_listHostedZones(i) ==
  /\ pc[i] = "listHostedZones" /\ handlerOf[i] = "deployed"
  /\ \E answer \in ListAnswers :
       LET issued == [listHostedZones |-> Inc(hist[i].listHostedZones)] IN
       /\ loc[i].credentials # "complete" => ~IsSome(answer)
       /\ IF ~IsSome(answer)
          THEN Throw(i, Rejected("ListHostedZones"), NoUpd,
                     Answered(i, "ListHostedZones", "error", issued))
          ELSE LET hostedZones == Get(answer) IN
               V1_continueLoop(i,
                 V1_nextValidation(loc[i].validationOptions, hostedZones, 1),
                 [hostedZones |-> hostedZones], issued)
  /\ UNCHANGED <<live, handlerOf, event, acmClient, stsClient, certs, dns>>

\* The validation record loop: one ChangeResourceRecordSets call
V1_changeRecords(i) ==
  /\ pc[i] = "changeRecords" /\ handlerOf[i] = "deployed"
  /\ \E answer \in ChangeAnswers :
       LET validation == loc[i].validationOptions[loc[i].idx]
           validationRecord == Get(validation.ResourceRecord)
           hostedZoneId ==
             Get(V1_findHostedZoneId(loc[i].hostedZones, validation.DomainName))
           change ==
             [HostedZoneId |-> hostedZoneId,
              Action |-> "UPSERT",
              ResourceRecordSet |->
                [Name |-> validationRecord.Name,
                 Type |-> validationRecord.Type,
                 TTL |-> Some(V1_RECORD_TTL),
                 ResourceRecords |-> <<validationRecord.Value>>,
                 AliasTarget |-> None]]
           issued == [changes |-> Append(hist[i].changes, change)]
       IN IF answer = "error"
          THEN /\ Throw(i, Rejected("ChangeResourceRecordSets"), NoUpd,
                        Answered(i, "ChangeResourceRecordSets", "error", issued))
               /\ UNCHANGED dns
          ELSE /\ dns' = Upsert(dns, hostedZoneId, change.ResourceRecordSet)
               /\ V1_continueLoop(i,
                    V1_nextValidation(loc[i].validationOptions, loc[i].hostedZones,
                                      loc[i].idx + 1),
                    NoUpd, issued)
  /\ UNCHANGED <<live, handlerOf, event, acmClient, stsClient, certs>>

\* Mutant of V1_waitForCertificateValidation: FAILED ends the poll
V1_waitForCertificateValidation_failFast(i) ==
  /\ pc[i] = "describeStatus" /\ handlerOf[i] = "deployed"
  /\ \E answer \in StatusAnswers :
       LET certificateArn == loc[i].certificateArn
           issued == [describeStatus |-> Inc(hist[i].describeStatus),
                      described |-> hist[i].described \cup {certificateArn}]
           certificateStatus == IF answer = "noStatus" THEN Undefined ELSE answer
           observed == Merge(issued, [lastStatus |-> certificateStatus])
       IN /\ certificateArn \notin certs => answer = "error"
          /\ CASE answer = "error" ->
                    Throw(i, Rejected("DescribeCertificate"), NoUpd,
                          Answered(i, "DescribeCertificate", "error", issued))
               [] certificateStatus \in {"ISSUED", "FAILED"} ->
                    V1_finish(i, certificateStatus,
                              [certificateStatus |-> certificateStatus], observed)
               [] OTHER ->
                    To(i, "sleepStatus",
                       [certificateStatus |-> certificateStatus], observed)
  /\ UNCHANGED <<live, handlerOf, event, acmClient, stsClient, certs, dns>>

\* waitForCertificateValidation: one DescribeCertificate call
V1_waitForCertificateValidation(i) ==
  /\ pc[i] = "describeStatus" /\ handlerOf[i] = "deployed"
  /\ \E answer \in StatusAnswers :
       LET certificateArn == loc[i].certificateArn
           issued == [describeStatus |-> Inc(hist[i].describeStatus),
                      described |-> hist[i].described \cup {certificateArn}]
           certificateStatus == IF answer = "noStatus" THEN Undefined ELSE answer
           observed == Merge(issued, [lastStatus |-> certificateStatus])
       IN /\ certificateArn \notin certs => answer = "error"
          /\ CASE answer = "error" ->
                    Throw(i, Rejected("DescribeCertificate"), NoUpd,
                          Answered(i, "DescribeCertificate", "error", issued))
               [] certificateStatus = "ISSUED" ->
                    V1_finish(i, certificateStatus,
                              [certificateStatus |-> certificateStatus], observed)
               [] OTHER ->
                    To(i, "sleepStatus",
                       [certificateStatus |-> certificateStatus], observed)
  /\ UNCHANGED <<live, handlerOf, event, acmClient, stsClient, certs, dns>>

\* waitForCertificateValidation: the sleep, and the loop condition after it
V1_sleepStatus(i) ==
  /\ pc[i] = "sleepStatus" /\ handlerOf[i] = "deployed"
  /\ LET elapsed == loc[i].elapsed + V1_POLLING_INTERVAL
         certificateStatus == loc[i].certificateStatus
     IN IF certificateStatus # "ISSUED" /\ elapsed < V1_TIMEOUT
        THEN To(i, "describeStatus", [elapsed |-> elapsed], NoUpd)
        ELSE V1_finish(i, certificateStatus, [elapsed |-> elapsed], NoUpd)
  /\ UNCHANGED <<live, handlerOf, event, acmClient, stsClient, certs, dns>>

\* Mutant of V1_deleteCertificate: a rejected deletion is swallowed
V1_deleteCertificate_swallowed(i) ==
  /\ pc[i] = "deleteCertificate" /\ handlerOf[i] = "deployed"
  /\ \E answer \in DeleteAnswers :
       LET certificateArn == event[i].PhysicalResourceId
           issued ==
             Answered(i, "DeleteCertificate", answer,
               [deletes |-> Append(hist[i].deletes, certificateArn),
                deleteAnswers |-> Append(hist[i].deleteAnswers, answer)])
       IN /\ answer = "ok" => certificateArn \in certs
          /\ certs' = IF answer = "ok" THEN certs \ {certificateArn} ELSE certs
          /\ Return(i, Some([PhysicalResourceId |-> certificateArn,
                              Data |-> None]), NoUpd, issued)
  /\ UNCHANGED <<live, handlerOf, event, acmClient, stsClient, dns>>

\* The Delete branch: the DeleteCertificate call
V1_deleteCertificate(i) ==
  /\ pc[i] = "deleteCertificate" /\ handlerOf[i] = "deployed"
  /\ \E answer \in DeleteAnswers :
       LET certificateArn == event[i].PhysicalResourceId
           issued ==
             Answered(i, "DeleteCertificate", answer,
               [deletes |-> Append(hist[i].deletes, certificateArn),
                deleteAnswers |-> Append(hist[i].deleteAnswers, answer)])
       IN /\ answer = "ok" => certificateArn \in certs
          /\ IF answer = "error"
             THEN /\ Throw(i, Rejected("DeleteCertificate"), NoUpd, issued)
                  /\ UNCHANGED certs
             ELSE /\ certs' = certs \ {certificateArn}
                  /\ Return(i, Some([PhysicalResourceId |-> certificateArn,
                                      Data |-> None]), NoUpd, issued)
  /\ UNCHANGED <<live, handlerOf, event, acmClient, stsClient, dns>>

----------------------------------------------------------------------------
(* The alias-record handler, src/src/functions/crossaccountdnsrecords.ts   *)

CLOUDFRONT_ZONE_ID == "Z2FDTNDATAQYW2"

\* findHostedZoneId: None is null
Alias_findHostedZoneId(hostedZones, domain) ==
  LET domainWithDot == domain \o "."
      found == {k \in 1..Len(hostedZones) :
                  EndsWith(domainWithDot, hostedZones[k].Name)}
  IN IF found = {} THEN None
     ELSE LET first == CHOOSE k \in found : \A m \in found : k <= m
          IN Some(hostedZones[first].Id)

\* const domains = [domainName, ...subjectAlternativeNames]
Alias_domains(i) ==
  <<event[i].ResourceProperties.DomainName>> \o SansOf(event[i].ResourceProperties)

\* Mutant of Alias_nextDomain: the loop ends at a domain without a zone
Alias_nextDomain_breaking(domains, hostedZones, k) ==
  IF k > Len(domains) THEN 0
  ELSE IF ~IsSome(Alias_findHostedZoneId(hostedZones, domains[k])) THEN 0
  ELSE k

\* The record loop from domain k on: the index of the next domain for which
\* a record set is changed, 0 when there is none
RECURSIVE Alias_nextDomain(_, _, _)
Alias_nextDomain(domains, hostedZones, k) ==
  IF k > Len(domains) THEN 0
  ELSE IF ~IsSome(Alias_findHostedZoneId(hostedZones, domains[k]))
       THEN Alias_nextDomain(domains, hostedZones, k + 1)
  ELSE k

\* Mutant of Alias_continueLoop: the physical id the event carries is kept
Alias_continueLoop_keptId(i, k, createdRecords, l, h) ==
  IF k = 0
  THEN Return(i, Some([PhysicalResourceId |->
                         IF event[i].PhysicalResourceId # Undefined
                         THEN event[i].PhysicalResourceId
                         ELSE event[i].ResourceProperties.DomainName,
                       Data |-> Some([Message |->
                                  "DNS records created/updated for: "
                                    \o Join(createdRecords, ", ")])]),
              l, h)
  ELSE To(i, "changeRecords", Merge(l, [idx |-> k]), h)

\* Mutant of Alias_continueLoop: the Message lists every domain of the event
Alias_continueLoop_allDomains(i, k, createdRecords, l, h) ==
  IF k = 0
  THEN Return(i, Some([PhysicalResourceId |-> event[i].ResourceProperties.DomainName,
                       Data |-> Some([Message |->
                                  "DNS records created/updated for: "
                                    \o Join(Alias_domains(i), ", ")])]),
              l, h)
  ELSE To(i, "changeRecords", Merge(l, [idx |-> k]), h)

\* The record loop, continued at domain k
Alias_continueLoop(i, k, createdRecords, l, h) ==
  IF k = 0
  THEN Return(i, Some([PhysicalResourceId |-> event[i].ResourceProperties.DomainName,
                       Data |-> Some([Message |->
                                  "DNS records created/updated for: "
                                    \o Join(createdRecords, ", ")])]),
              l, h)
  ELSE To(i, "changeRecords", Merge(l, [idx |-> k]), h)

\* Mutant of Alias_handler: the role is assumed once per process, a later
\* invocation goes on with the credentials an earlier one obtained
Alias_handler_cachedRole(i) ==
  /\ pc[i] = "start" /\ handlerOf[i] = "alias"
  /\ LET requestType == event[i].RequestType
         domainName == event[i].ResourceProperties.DomainName
         cached == \E j \in live : j # i /\ loc[j].credentials = "complete"
     IN /\ stsClient' = [stsClient EXCEPT !["alias"] = "default"]
        /\ IF requestType = "Create" \/ requestType = "Update"
           THEN IF cached
                THEN To(i, "listHostedZones", [credentials |-> "complete"], NoUpd)
                ELSE To(i, "assumeRole", NoUpd, NoUpd)
           ELSE IF requestType = "Delete"
           THEN Return(i, Some([PhysicalResourceId |-> domainName, Data |-> None]),
                       NoUpd, NoUpd)
           ELSE Return(i, None, NoUpd, NoUpd)
  /\ UNCHANGED <<live, handlerOf, event, acmClient, certs, dns>>

\* exports.handler up to its first call
Alias_handler(i) ==
  /\ pc[i] = "start" /\ handlerOf[i] = "alias"
  /\ LET requestType == event[i].RequestType
         domainName == event[i].ResourceProperties.DomainName
     IN /\ stsClient' = [stsClient EXCEPT !["alias"] = "default"]
        /\ IF requestType = "Create" \/ requestType = "Update"
           THEN To(i, "assumeRole", NoUpd, NoUpd)
           ELSE IF requestType = "Delete"
           THEN Return(i, Some([PhysicalResourceId |-> domainName, Data |-> None]),
                       NoUpd, NoUpd)
           ELSE Return(i, None, NoUpd, NoUpd)
  /\ UNCHANGED <<live, handlerOf, event, acmClient, certs, dns>>

\* assumeCrossAccountRole
Alias_assumeCrossAccountRole(i) ==
  /\ pc[i] = "assumeRole" /\ handlerOf[i] = "alias"
  /\ \E answer \in AssumeAnswers :
       LET issued == [assumeRole |-> Inc(hist[i].assumeRole)] IN
       CASE answer = "error" -> Throw(i, Rejected("AssumeRole"), NoUpd,
                                      Answered(i, "AssumeRole", "error", issued))
         [] answer = "noCredentials" -> Throw(i, "TypeError", NoUpd, issued)
         [] OTHER ->
              To(i, "listHostedZones",
                 [credentials |-> IF answer = "ok" THEN "complete" ELSE "incomplete"],
                 issued)
  /\ UNCHANGED <<live, handlerOf, event, acmClient, stsClient, certs, dns>>

\* Mutant of Alias_listHostedZones: a rejected call counts as an empty list
Alias_listHostedZones_swallowed(i) ==
  /\ pc[i] = "listHostedZones" /\ handlerOf[i] = "alias"
  /\ \E answer \in ListAnswers :
       LET issued == [listHostedZones |-> Inc(hist[i].listHostedZones)]
           hostedZones == IF IsSome(answer) THEN Get(answer) ELSE <<>>
       IN
       /\ loc[i].credentials # "complete" => ~IsSome(answer)
       /\ Alias_continueLoop(i,
            Alias_nextDomain(Alias_domains(i), hostedZones, 1), <<>>,
            [hostedZones |-> hostedZones],
            Answered(i, "ListHostedZones",
                     IF IsSome(answer) THEN "ok" ELSE "error", issued))
  /\ UNCHANGED <<live, handlerOf, event, acmClient, stsClient, certs, dns>>

\* ListHostedZones, and the record loop up to its first call.
\* The DNS service rejects a call made with incomplete credentials.
Alias_listHostedZones(i) ==
  /\ pc[i] = "listHostedZones" /\ handlerOf[i] = "alias"
  /\ \E answer \in ListAnswers :
       LET issued == [listHostedZones |-> Inc(hist[i].listHostedZones)] IN
       /\ loc[i].credentials # "complete" => ~IsSome(answer)
       /\ IF ~IsSome(answer)
          THEN Throw(i, Rejected("ListHostedZones"), NoUpd,
                     Answered(i, "ListHostedZones", "error", issued))
          ELSE LET hostedZones == Get(answer) IN
               Alias_continueLoop(i,
                 Alias_nextDomain(Alias_domains(i), hostedZones, 1), <<>>,
                 [hostedZones |-> hostedZones], issued)
  /\ UNCHANGED <<live, handlerOf, event, acmClient, stsClient, certs, dns>>

\* Mutant of Alias_changeRecords: the change removes the record set
Alias_changeRecords_deleting(i) ==
  /\ pc[i] = "changeRecords" /\ handlerOf[i] = "alias"
  /\ \E answer \in ChangeAnswers :
       LET domain == Alias_domains(i)[loc[i].idx]
           hostedZoneId == Get(Alias_findHostedZoneId(loc[i].hostedZones, domain))
           change ==
             [HostedZoneId |-> hostedZoneId,
              Action |-> "DELETE",
              ResourceRecordSet |->
                [Name |-> domain, Type |-> "A", TTL |-> None,
                 ResourceRecords |-> <<>>, AliasTarget |-> None]]
           issued == [changes |-> Append(hist[i].changes, change)]
           createdRecords == Append(loc[i].createdRecords, domain)
       IN IF answer = "error"
          THEN /\ Throw(i, Rejected("ChangeResourceRecordSets"), NoUpd,
                        Answered(i, "ChangeResourceRecordSets", "error", issued))
               /\ UNCHANGED dns
          ELSE /\ dns' = {x \in dns : <<x.zone, x.set.Name, x.set.Type>>
                                        # <<ZoneKey(hostedZoneId), domain, "A">>}
               /\ Alias_continueLoop(i,
                    Alias_nextDomain(Alias_domains(i), loc[i].hostedZones,
                                     loc[i].idx + 1),
                    createdRecords, [createdRecords |-> createdRecords], issued)
  /\ UNCHANGED <<live, handlerOf, event, acmClient, stsClient, certs>>

\* The record loop: one ChangeResourceRecordSets call
Alias_changeRecords(i) ==
  /\ pc[i] = "changeRecords" /\ handlerOf[i] = "alias"
  /\ \E answer \in ChangeAnswers :
       LET domain == Alias_domains(i)[loc[i].idx]
           cloudfrontUrl == event[i].ResourceProperties.CloudfrontURL
           hostedZoneId == Get(Alias_findHostedZoneId(loc[i].hostedZones, domain))
           change ==
             [HostedZoneId |-> hostedZoneId,
              Action |-> "UPSERT",
              ResourceRecordSet |->
                [Name |-> domain,
                 Type |-> "A",
                 TTL |-> None,
                 ResourceRecords |-> <<>>,
                 AliasTarget |-> Some([HostedZoneId |-> CLOUDFRONT_ZONE_ID,
                                       DNSName |-> cloudfrontUrl,
                                       EvaluateTargetHealth |-> FALSE])]]
           issued == [changes |-> Append(hist[i].changes, change)]
           createdRecords == Append(loc[i].createdRecords, domain)
       IN IF answer = "error"
          THEN /\ Throw(i, Rejected("ChangeResourceRecordSets"), NoUpd,
                        Answered(i, "ChangeResourceRecordSets", "error", issued))
               /\ UNCHANGED dns
          ELSE /\ dns' = Upsert(dns, hostedZoneId, change.ResourceRecordSet)
               /\ Alias_continueLoop(i,
                    Alias_nextDomain(Alias_domains(i), loc[i].hostedZones,
                                     loc[i].idx + 1),
                    createdRecords, [createdRecords |-> createdRecords], issued)
  /\ UNCHANGED <<live, handlerOf, event, acmClient, stsClient, certs>>

----------------------------------------------------------------------------
(* Specification: one invocation of one handler on one event *)

\* The process and the services when the invocations ids begin
InitState(ids) ==
  /\ pc = [i \in ids |-> "start"]
  /\ loc = [i \in ids |-> InitLoc]
  /\ hist = [i \in ids |-> InitHist]
  /\ acmClient = [h \in Handlers |-> "unset"]
  /\ stsClient = [h \in Handlers |-> "unset"]
  /\ certs = {event[i].PhysicalResourceId : i \in ids} \cap {OldArn}
  /\ dns = {}

InitOf(ids) ==
  /\ live = ids
  /\ handlerOf \in [ids -> Handlers]
  /\ event \in [ids -> UNION {Events(h) : h \in Handlers}]
  /\ \A i \in ids : event[i] \in Events(handlerOf[i])
  /\ InitState(ids)

Init == InitOf({1})

Next ==
  \/ \E i \in live : V2_handler(i)
  \/ \E i \in live : V2_requestCertificate(i)
  \/ \E i \in live : V2_deleteOldCertificate(i)
  \/ \E i \in live : V2_getCertificateValidationOptions(i)
  \/ \E i \in live : V2_sleepOptions(i)
  \/ \E i \in live : V2_assumeCrossAccountRole(i)
  \/ \E i \in live : V2_listHostedZones(i)
  \/ \E i \in live : V2_updateDnsValidationRecords(i)
  \/ \E i \in live : V2_waitForCertificateValidation(i)
  \/ \E i \in live : V2_sleepStatus(i)
  \/ \E i \in live : V1_handler(i)
  \/ \E i \in live : V1_requestCertificate(i)
  \/ \E i \in live : V1_deleteOldCertificate(i)
  \/ \E i \in live : V1_describeOptions(i)
  \/ \E i \in live : V1_sleepOptions(i)
  \/ \E i \in live : V1_assumeCrossAccountRole(i)
  \/ \E i \in live : V1_listHostedZones(i)
  \/ \E i \in live : V1_changeRecords(i)
  \/ \E i \in live : V1_waitForCertificateValidation(i)
  \/ \E i \in live : V1_sleepStatus(i)
  \/ \E i \in live : V1_deleteCertificate(i)
  \/ \E i \in live : Alias_handler(i)
  \/ \E i \in live : Alias_assumeCrossAccountRole(i)
  \/ \E i \in live : Alias_listHostedZones(i)
  \/ \E i \in live : Alias_changeRecords(i)

Spec == Init /\ [][Next]_vars

\* The handlers' steps are continuations on the event loop: one that can run
\* does run
FairSpec == Spec /\ WF_vars(Next)

----------------------------------------------------------------------------
(* Specification: the alias-record handler invoked twice on the same event,
   the two invocations interleaved at their await points *)

AliasTwiceInit ==
  /\ live = {1, 2}
  /\ handlerOf = [i \in {1, 2} |-> "alias"]
  /\ \E e \in Events("alias") : event = [i \in {1, 2} |-> e]
  /\ InitState({1, 2})

AliasTwiceNext ==
  \/ \E i \in live : Alias_handler(i)
  \/ \E i \in live : Alias_assumeCrossAccountRole(i)
  \/ \E i \in live : Alias_listHostedZones(i)
  \/ \E i \in live : Alias_changeRecords(i)

AliasTwiceSpec == AliasTwiceInit /\ [][AliasTwiceNext]_vars

----------------------------------------------------------------------------
(* Specification: a certificate handler invoked twice in one process on
   Create events for different regions, the two invocations interleaved at
   their await points *)

CertTwiceInit ==
  /\ live = {1, 2}
  /\ \E h \in CertHandlers : handlerOf = [i \in {1, 2} |-> h]
  /\ \E e \in Events("refactored") :
       /\ e.RequestType = "Create"
       /\ e.ResourceProperties.DomainName = "dev.example.com"
       /\ e.ResourceProperties.SubjectAlternativeNames = Some(<<>>)
       /\ event = [i \in {1, 2} |->
                     IF i = 1 THEN e
                     ELSE [e EXCEPT !.ResourceProperties.CloudfrontCertificateRegion =
                                       OtherRegion]]
  /\ InitState({1, 2})

CertTwiceNext ==
  \/ \E i \in live : V2_handler(i)
  \/ \E i \in live : V2_requestCertificate(i)
  \/ \E i \in live : V2_getCertificateValidationOptions(i)
  \/ \E i \in live : V2_sleepOptions(i)
  \/ \E i \in live : V2_assumeCrossAccountRole(i)
  \/ \E i \in live : V2_listHostedZones(i)
  \/ \E i \in live : V2_updateDnsValidationRecords(i)
  \/ \E i \in live : V2_waitForCertificateValidation(i)
  \/ \E i \in live : V2_sleepStatus(i)
  \/ \E i \in live : V1_handler(i)
  \/ \E i \in live : V1_requestCertificate(i)
  \/ \E i \in live : V1_describeOptions(i)
  \/ \E i \in live : V1_sleepOptions(i)
  \/ \E i \in live : V1_assumeCrossAccountRole(i)
  \/ \E i \in live : V1_listHostedZones(i)
  \/ \E i \in live : V1_changeRecords(i)
  \/ \E i \in live : V1_waitForCertificateValidation(i)
  \/ \E i \in live : V1_sleepStatus(i)

CertTwiceSpec == CertTwiceInit /\ [][CertTwiceNext]_vars

----------------------------------------------------------------------------
(* Specification: one Create or Update of a certificate handler for
   dev.example.com without alternative names, every step that can be taken
   eventually taken *)

CertInit ==
  /\ live = {1}
  /\ handlerOf \in [{1} -> CertHandlers]
  /\ \E e \in Events("refactored") :
       /\ e.RequestType \in {"Create", "Update"}
       /\ e.ResourceProperties.DomainName = "dev.example.com"
       /\ e.ResourceProperties.SubjectAlternativeNames = Some(<<>>)
       /\ event = [i \in {1} |-> e]
  /\ InitState({1})

CertNext ==
  \/ \E i \in live : V2_handler(i)
  \/ \E i \in live : V2_requestCertificate(i)
  \/ \E i \in live : V2_deleteOldCertificate(i)
  \/ \E i \in live : V2_getCertificateValidationOptions(i)
  \/ \E i \in live : V2_sleepOptions(i)
  \/ \E i \in live : V2_assumeCrossAccountRole(i)
  \/ \E i \in live : V2_listHostedZones(i)
  \/ \E i \in live : V2_updateDnsValidationRecords(i)
  \/ \E i \in live : V2_waitForCertificateValidation(i)
  \/ \E i \in live : V2_sleepStatus(i)
  \/ \E i \in live : V1_handler(i)
  \/ \E i \in live : V1_requestCertificate(i)
  \/ \E i \in live : V1_deleteOldCertificate(i)
  \/ \E i \in live : V1_describeOptions(i)
  \/ \E i \in live : V1_sleepOptions(i)
  \/ \E i \in live : V1_assumeCrossAccountRole(i)
  \/ \E i \in live : V1_listHostedZones(i)
  \/ \E i \in live : V1_changeRecords(i)
  \/ \E i \in live : V1_waitForCertificateValidation(i)
  \/ \E i \in live : V1_sleepStatus(i)

FairCertSpec == CertInit /\ [][CertNext]_vars /\ WF_vars(CertNext)

----------------------------------------------------------------------------
(* Specification: a handler invoked twice in one process on the same Create
   event, the second invocation starting when the first has ended (an
   execution environment is handed one event at a time) *)

SequentialInit ==
  /\ live = {1, 2}
  /\ \E h \in Handlers :
       /\ handlerOf = [i \in {1, 2} |-> h]
       /\ \E e \in Events(h) :
            /\ e.RequestType = "Create"
            /\ e.ResourceProperties.DomainName = "dev.example.com"
            /\ e.ResourceProperties.SubjectAlternativeNames = Some(<<>>)
            /\ event = [i \in {1, 2} |-> e]
  /\ InitState({1, 2})

\* Invocation i is handed its event: those before it have ended
InTurn(i) == \A j \in live : j < i => pc[j] \in Terminal

SequentialNext ==
  \/ \E i \in live : InTurn(i) /\ V2_handler(i)
  \/ \E i \in live : V2_requestCertificate(i)
  \/ \E i \in live : V2_getCertificateValidationOptions(i)
  \/ \E i \in live : V2_sleepOptions(i)
  \/ \E i \in live : V2_assumeCrossAccountRole(i)
  \/ \E i \in live : V2_listHostedZones(i)
  \/ \E i \in live : V2_updateDnsValidationRecords(i)
  \/ \E i \in live : V2_waitForCertificateValidation(i)
  \/ \E i \in live : V2_sleepStatus(i)
  \/ \E i \in live : InTurn(i) /\ V1_handler(i)
  \/ \E i \in live : V1_requestCertificate(i)
  \/ \E i \in live : V1_describeOptions(i)
  \/ \E i \in live : V1_sleepOptions(i)
  \/ \E i \in live : V1_assumeCrossAccountRole(i)
  \/ \E i \in live : V1_listHostedZones(i)
  \/ \E i \in live : V1_changeRecords(i)
  \/ \E i \in live : V1_waitForCertificateValidation(i)
  \/ \E i \in live : V1_sleepStatus(i)
  \/ \E i \in live : InTurn(i) /\ Alias_handler(i)
  \/ \E i \in live : Alias_assumeCrossAccountRole(i)
  \/ \E i \in live : Alias_listHostedZones(i)
  \/ \E i \in live : Alias_changeRecords(i)

SequentialSpec == SequentialInit /\ [][SequentialNext]_vars

----------------------------------------------------------------------------
(* Specification: the alias-record resource through two lifecycle events,
   a Create and then an Update or Delete that carries as PhysicalResourceId
   what the Create returned, the domain name of the Create *)

AliasLifecycleInit ==
  /\ live = {1, 2}
  /\ handlerOf = [i \in {1, 2} |-> "alias"]
  /\ \E e1 \in Events("alias"), e2 \in Events("alias") :
       /\ e1.RequestType = "Create"
       /\ e2.RequestType \in {"Update", "Delete"}
       /\ e2.PhysicalResourceId = e1.ResourceProperties.DomainName
       /\ event = [i \in {1, 2} |-> IF i = 1 THEN e1 ELSE e2]
  /\ InitState({1, 2})

AliasLifecycleNext ==
  \/ \E i \in live : InTurn(i) /\ Alias_handler(i)
  \/ \E i \in live : Alias_assumeCrossAccountRole(i)
  \/ \E i \in live : Alias_listHostedZones(i)
  \/ \E i \in live : Alias_changeRecords(i)

AliasLifecycleSpec == AliasLifecycleInit /\ [][AliasLifecycleNext]_vars

----------------------------------------------------------------------------
(* The claims *)

Range(seq) == {seq[k] : k \in 1..Len(seq)}
IsCert(i) == handlerOf[i] \in CertHandlers
Type(i) == event[i].RequestType
Result(i) == Get(loc[i].result)
Succeeded(i) == pc[i] = "done" /\ IsSome(loc[i].result)
\* The unordered set {DomainName} \cup SubjectAlternativeNames
DomainSet(props) == {props.DomainName} \cup Range(SansOf(props))
HasOld(i) == IsSome(event[i].OldResourceProperties)
SameDomainSet(i) ==
  DomainSet(event[i].ResourceProperties) = DomainSet(Get(event[i].OldResourceProperties))

\* C1: on an Update whose unordered domain set equals that of
\* OldResourceProperties the certificate handler issues no RequestCertificate
\* and no DeleteCertificate call, and the PhysicalResourceId it returns is
\* the event's.
C1_UnchangedSetKeepsCertificate ==
  \A i \in live :
    (IsCert(i) /\ Type(i) = "Update" /\ HasOld(i) /\ SameDomainSet(i)) =>
      /\ hist[i].requests = <<>>
      /\ hist[i].deletes = <<>>
      /\ Succeeded(i) => Result(i).PhysicalResourceId = event[i].PhysicalResourceId

\* C2: on an Update whose domain set differs from that of
\* OldResourceProperties the certificate handler issues exactly one
\* RequestCertificate call; when it succeeds, PhysicalResourceId and
\* Data.CertificateArn are the ARN that call returned, not the event's
\* PhysicalResourceId; and a rejected deletion of the old certificate never
\* is the failure of the invocation.
C2_ChangedSetRequestsOnce ==
  \A i \in live :
    (IsCert(i) /\ Type(i) = "Update" /\ HasOld(i) /\ ~SameDomainSet(i)) =>
      /\ Len(hist[i].requests) <= 1
      /\ pc[i] \notin {"start", "requestCertificate"} => Len(hist[i].requests) = 1
      /\ pc[i] = "done" =>
           /\ IsSome(loc[i].result)
           /\ hist[i].requestedArn # Undefined
           /\ Result(i).PhysicalResourceId = hist[i].requestedArn
           /\ Result(i).PhysicalResourceId # event[i].PhysicalResourceId
           /\ Get(Result(i).Data).CertificateArn = hist[i].requestedArn
      /\ pc[i] = "failed" => loc[i].error # Rejected("DeleteCertificate")

\* An Update whose previous alternates were [www.example.com] and whose
\* current alternates are [] has succeeded although the deletion of the old
\* certificate was rejected
C2_Witness ==
  \E i \in live :
    /\ IsCert(i) /\ Type(i) = "Update" /\ HasOld(i) /\ ~SameDomainSet(i)
    /\ SansOf(Get(event[i].OldResourceProperties)) = <<"www.example.com">>
    /\ SansOf(event[i].ResourceProperties) = <<>>
    /\ Get(event[i].OldResourceProperties).DomainName
         = event[i].ResourceProperties.DomainName
    /\ Succeeded(i)
    /\ hist[i].deleteAnswers = <<"error">>
    /\ Result(i).PhysicalResourceId = hist[i].requestedArn

\* C3: the refactored handler returns a payload for Create or Update only
\* if the last status the issuance poll observed is ISSUED; when the budget
\* is exhausted with another status the invocation has failed without a
\* payload.
C3_RefactoredSuccessOnlyIfIssued ==
  \A i \in live :
    (handlerOf[i] = "refactored" /\ Type(i) \in {"Create", "Update"}) =>
      /\ pc[i] = "done" => IsSome(loc[i].result) /\ hist[i].lastStatus = "ISSUED"
      /\ (loc[i].elapsed >= CERTIFICATE_TIMEOUT /\ hist[i].lastStatus # "ISSUED") =>
           pc[i] = "failed" /\ ~IsSome(loc[i].result)

\* The issuance poll of the refactored handler has run out of budget
C3_Witness ==
  \E i \in live :
    /\ handlerOf[i] = "refactored" /\ Type(i) = "Create"
    /\ loc[i].elapsed >= CERTIFICATE_TIMEOUT
    /\ hist[i].lastStatus = "PENDING_VALIDATION"
    /\ pc[i] = "failed"

\* C4: the deployed handler never returns a payload for Create or Update
\* when the last status its issuance poll observed is not ISSUED.
C4_DeployedSuccessOnlyIfIssued ==
  \A i \in live :
    (handlerOf[i] = "deployed" /\ Type(i) \in {"Create", "Update"} /\ Succeeded(i)) =>
      hist[i].lastStatus = "ISSUED"

\* C5: a Delete event of the deployed handler issues exactly one
\* DeleteCertificate call, for the event's PhysicalResourceId; the
\* invocation fails with the call's error when it is rejected and returns
\* that PhysicalResourceId when it is accepted.
C5_DeployedDeleteDeletes ==
  \A i \in live :
    (handlerOf[i] = "deployed" /\ Type(i) = "Delete") =>
      /\ Len(hist[i].deletes) <= 1
      /\ pc[i] \in Terminal => hist[i].deletes = <<event[i].PhysicalResourceId>>
      /\ pc[i] = "failed" <=> hist[i].deleteAnswers = <<"error">>
      /\ pc[i] = "failed" => loc[i].error = Rejected("DeleteCertificate")
      /\ pc[i] = "done" <=> hist[i].deleteAnswers = <<"ok">>
      /\ pc[i] = "done" =>
           loc[i].result = Some([PhysicalResourceId |-> event[i].PhysicalResourceId,
                                 Data |-> None])

\* A Delete of the deployed handler has failed on a rejected deletion
C5_Witness ==
  \E i \in live :
    /\ handlerOf[i] = "deployed" /\ Type(i) = "Delete"
    /\ event[i].PhysicalResourceId = OldArn
    /\ pc[i] = "failed"
    /\ hist[i].deletes = <<OldArn>>

\* C6: after a successful Delete of the refactored handler a
\* DeleteCertificate call for the event's PhysicalResourceId has been issued
\* and the certificate no longer exists.
C6_RefactoredDeleteDeletes ==
  \A i \in live :
    (handlerOf[i] = "refactored" /\ Type(i) = "Delete" /\ Succeeded(i)) =>
      /\ event[i].PhysicalResourceId \in Range(hist[i].deletes)
      /\ event[i].PhysicalResourceId \notin certs

\* C7: a Delete invocation of any of the three handlers issues no
\* AssumeRole, ListHostedZones, ChangeResourceRecordSets, RequestCertificate
\* or DescribeCertificate call.
C7_DeleteIssuesNoOtherCall ==
  \A i \in live :
    Type(i) = "Delete" =>
      /\ hist[i].assumeRole = 0
      /\ hist[i].listHostedZones = 0
      /\ hist[i].changes = <<>>
      /\ hist[i].requests = <<>>
      /\ hist[i].described = {} /\ hist[i].describeStatus = 0
      /\ pc[i] \in {"start", "deleteCertificate", "done", "failed"}

\* A Delete invocation of the deployed handler has deleted the certificate
\* and returned
C7_Witness ==
  \E i \in live :
    /\ Type(i) = "Delete" /\ pc[i] = "done"
    /\ handlerOf[i] = "deployed"
    /\ hist[i].deletes = <<OldArn>>

\* C8: the validation-options poll ends, with success or failure, also when
\* the authority never returns a record value for the first option.
C8_OptionsPollTerminates ==
  (pc[1] = "describeOptions") ~> (pc[1] \notin {"describeOptions", "sleepOptions"})

\* The zone of hostedZones with the longest name among those whose name is a
\* suffix of the domain with a trailing dot
MostSpecificZones(hostedZones, domain) ==
  LET matching == {z \in Range(hostedZones) : EndsWith(domain \o ".", z.Name)}
  IN {z \in matching : \A y \in matching : Len(y.Name) <= Len(z.Name)}

\* findHostedZoneId of the handler invocation i runs
FindHostedZoneId(i, hostedZones, domain) ==
  CASE handlerOf[i] = "refactored" -> V2_findHostedZoneId(hostedZones, domain)
    [] handlerOf[i] = "deployed" -> V1_findHostedZoneId(hostedZones, domain)
    [] handlerOf[i] = "alias" -> Alias_findHostedZoneId(hostedZones, domain)

\* C9: findHostedZoneId returns the zone with the longest name among the
\* listed zones matching the domain, whatever the order of the list.
C9_MostSpecificZone ==
  \A i \in live : \A d \in Range(CertDomains(i)) :
    LET zones == loc[i].hostedZones
        found == FindHostedZoneId(i, zones, d)
    IN /\ IsSome(found) <=> MostSpecificZones(zones, d) # {}
       /\ IsSome(found) =>
            ZoneKey(Get(found)) \in {ZoneKey(z.Id) : z \in MostSpecificZones(zones, d)}

\* C10: a successful Create of the certificate handler has issued exactly
\* one RequestCertificate call, with validation method DNS, has observed
\* ISSUED for the ARN it returned, and returns that ARN as PhysicalResourceId
\* and Data.CertificateArn.
C10_CreateSucceedsIssued ==
  \A i \in live :
    (IsCert(i) /\ Type(i) = "Create" /\ Succeeded(i)) =>
      /\ Len(hist[i].requests) = 1
      /\ hist[i].requests[1].ValidationMethod = "DNS"
      /\ hist[i].requestedArn \in hist[i].described
      /\ hist[i].lastStatus = "ISSUED"
      /\ Result(i).PhysicalResourceId = hist[i].requestedArn
      /\ Get(Result(i).Data).CertificateArn = hist[i].requestedArn

\* C11: on an Update whose domain set equals that of OldResourceProperties
\* the certificate handler issues no DescribeCertificate, AssumeRole,
\* ListHostedZones or ChangeResourceRecordSets call between receiving the
\* event and returning.
C11_UnchangedUpdateIssuesNoCall ==
  \A i \in live :
    (IsCert(i) /\ Type(i) = "Update" /\ HasOld(i) /\ SameDomainSet(i)) =>
      /\ hist[i].described = {}
      /\ hist[i].describeStatus = 0
      /\ hist[i].assumeRole = 0
      /\ hist[i].listHostedZones = 0
      /\ hist[i].changes = <<>>

\* The (hosted zone, record name, record type) keys present in DNS
DnsKeys(records) == {<<x.zone, x.set.Name, x.set.Type>> : x \in records}
ChangesOf(h) == Range(h.changes)

\* C12: every ChangeResourceRecordSets change the certificate handler and the
\* alias-record handler issue has Action UPSERT, and no step of a handler
\* removes a (hosted zone, record name, record type) key from DNS.
C12_OnlyUpserts ==
  [][/\ \A i \in live : \A c \in ChangesOf(hist'[i]) : c.Action = "UPSERT"
     /\ DnsKeys(dns) \subseteq DnsKeys(dns')]_vars

\* An invocation has changed two record sets and both keys are in DNS
C12_Witness ==
  \E i \in live :
    /\ Len(hist[i].changes) >= 2
    /\ Cardinality(DnsKeys(dns)) >= 2
    /\ \A c \in ChangesOf(hist[i]) :
         <<ZoneKey(c.HostedZoneId), c.ResourceRecordSet.Name, c.ResourceRecordSet.Type>>
           \in DnsKeys(dns)

\* The record set the alias-record handler upserts for domain d
AliasRecordSet(i, d) ==
  [Name |-> d, Type |-> "A", TTL |-> None, ResourceRecords |-> <<>>,
   AliasTarget |-> Some([HostedZoneId |-> CLOUDFRONT_ZONE_ID,
                         DNSName |-> event[i].ResourceProperties.CloudfrontURL,
                         EvaluateTargetHealth |-> FALSE])]
\* The DNS records one processing of invocation i's event leaves, given the
\* hosted-zone list it was answered
AliasRecordsOnce(i) ==
  LET zones == loc[i].hostedZones
      resolvable == {d \in Range(Alias_domains(i)) :
                       IsSome(Alias_findHostedZoneId(zones, d))}
  IN {[zone |-> ZoneKey(Get(Alias_findHostedZoneId(zones, d))),
       set |-> AliasRecordSet(i, d)] : d \in resolvable}
\* Every invocation that issued a change worked on the event and the
\* hosted-zone list of invocation i
SameEventAndZones(i) ==
  \A j \in live :
    hist[j].changes # <<>> =>
      /\ event[j] = event[i]
      /\ loc[j].hostedZones = loc[i].hostedZones

\* C13: when the alias-record handler has processed a Create or Update event,
\* DNS holds exactly the records of one processing of the event, one per
\* key, whether the same event was processed a second time against the same
\* hosted-zone list or not, and however the two were interleaved.
C13_AliasIdempotent ==
  \A i \in live :
    (handlerOf[i] = "alias" /\ Type(i) \in {"Create", "Update"}
       /\ Succeeded(i) /\ SameEventAndZones(i)) =>
      /\ dns = AliasRecordsOnce(i)
      /\ Cardinality(DnsKeys(dns)) = Cardinality(dns)

\* Both invocations have processed the event, each changing two record sets
C13_Witness ==
  /\ live = {1, 2}
  /\ \A i \in live :
       /\ handlerOf[i] = "alias" /\ Succeeded(i)
       /\ Len(hist[i].changes) = 2
  /\ loc[1].hostedZones = loc[2].hostedZones
  /\ Cardinality(dns) = 2

\* DNS reconciliation of invocation i: the domains its record loop goes
\* through, in order, and the name of the record set it changes for each
ReconDomains(i) ==
  IF handlerOf[i] = "alias" THEN Alias_domains(i)
  ELSE [k \in 1..Len(loc[i].validationOptions) |->
          loc[i].validationOptions[k].DomainName]
ReconHasRecord(i, k) ==
  handlerOf[i] = "alias" \/ IsSome(loc[i].validationOptions[k].ResourceRecord)
ReconName(i, d) == IF handlerOf[i] = "alias" THEN d ELSE ValidationRecord(d).Name
ReconZone(i, d) == FindHostedZoneId(i, loc[i].hostedZones, d)
\* ListHostedZones has answered invocation i with a list
Listed(i) ==
  /\ hist[i].listHostedZones = 1
  /\ pc[i] # "listHostedZones"
  /\ loc[i].error # Rejected("ListHostedZones")
\* The record loop of invocation i has run to its end
LoopDone(i) ==
  Listed(i) /\ (pc[i] \in {"describeStatus", "sleepStatus", "done"}
                  \/ hist[i].describeStatus > 0)
\* The domains before this index have been gone through
ReconReached(i) ==
  IF LoopDone(i) THEN Len(ReconDomains(i)) + 1
  ELSE IF pc[i] = "changeRecords" THEN loc[i].idx
  ELSE 0
ChangeIssued(i, d) ==
  \E c \in ChangesOf(hist[i]) :
    /\ c.ResourceRecordSet.Name = ReconName(i, d)
    /\ c.HostedZoneId = Get(ReconZone(i, d))

MissingCredentials == "Failed to assume role - missing credentials"

\* C15: in the refactored handler, when AssumeRole is denied or its response
\* lacks AccessKeyId, SecretAccessKey or SessionToken, the invocation fails
\* and issues no ListHostedZones and no ChangeResourceRecordSets call.
C15_RefactoredFailsWithoutCredentials ==
  \A i \in live :
    (handlerOf[i] = "refactored" /\ hist[i].assumeRole > 0
       /\ loc[i].credentials # "complete") =>
      /\ pc[i] = "failed"
      /\ loc[i].error \in {Rejected("AssumeRole"), MissingCredentials}
      /\ hist[i].listHostedZones = 0
      /\ hist[i].changes = <<>>

\* The refactored handler failed on a response without complete credentials
C15_Witness ==
  \E i \in live :
    /\ handlerOf[i] = "refactored" /\ hist[i].assumeRole = 1
    /\ pc[i] = "failed" /\ loc[i].error = MissingCredentials
    /\ hist[i].listHostedZones = 0

\* C16: in the deployed certificate handler and the alias-record handler,
\* when the AssumeRole response carries Credentials lacking one of the three
\* fields, the invocation fails and issues no ListHostedZones and no
\* ChangeResourceRecordSets call.
C16_IncompleteCredentialsIssueNoCall ==
  \A i \in live :
    (handlerOf[i] \in {"deployed", "alias"} /\ loc[i].credentials = "incomplete") =>
      /\ pc[i] \in Terminal => pc[i] = "failed"
      /\ hist[i].listHostedZones = 0
      /\ hist[i].changes = <<>>

\* Invocation i has issued no call to the certificate authority, the token
\* service or the DNS service
NoCall(i) == hist[i] = InitHist
Supported(i) == Type(i) \in {"Create", "Update", "Delete"}

\* C17: in the refactored handler an event whose RequestType is not Create,
\* Update or Delete makes the invocation fail, with an unsupported-request-
\* type error, before any call to the certificate authority, the token
\* service or the DNS service.
C17_RefactoredRejectsUnknownType ==
  \A i \in live :
    (handlerOf[i] = "refactored" /\ ~Supported(i)) =>
      /\ NoCall(i)
      /\ pc[i] \in {"start", "failed"}
      /\ pc[i] = "failed" =>
           loc[i].error = "Unsupported request type: " \o Type(i)

\* The refactored handler failed on a Replace event
C17_Witness ==
  \E i \in live :
    /\ handlerOf[i] = "refactored" /\ Type(i) = "Replace"
    /\ pc[i] = "failed" /\ NoCall(i)

\* C18: in the deployed certificate handler and the alias-record handler an
\* event whose RequestType is not Create, Update or Delete never completes
\* normally: the invocation fails with an error.
C18_UnknownTypeNeverCompletes ==
  \A i \in live :
    (handlerOf[i] \in {"deployed", "alias"} /\ ~Supported(i)) =>
      pc[i] # "done"

\* The DeleteCertificate call for the old certificate on Update
IsOldCertificateDeletion(i, call) ==
  call = "DeleteCertificate" /\ Type(i) = "Update"

\* C19: when an external call of an invocation is rejected, other than the
\* DeleteCertificate call for the old certificate on Update, the invocation
\* fails with that call's error and returns no payload; a failed invocation
\* issues no further call.
C19_RejectedCallFailsInvocation ==
  [][\A i \in live :
       /\ \A k \in 1..Len(hist'[i].rejected) :
            ~IsOldCertificateDeletion(i, hist'[i].rejected[k]) =>
              /\ pc'[i] = "failed"
              /\ loc'[i].error = Rejected(hist'[i].rejected[k])
              /\ loc'[i].result = None
       /\ pc[i] = "failed" => (pc'[i] = "failed" /\ hist'[i] = hist[i])]_vars

\* An Update whose deletion of the old certificate was rejected went on and
\* failed on a later rejected DescribeCertificate call
C19_Witness ==
  \E i \in live :
    /\ Type(i) = "Update"
    /\ hist[i].rejected = <<"DeleteCertificate", "DescribeCertificate">>
    /\ pc[i] = "failed" /\ loc[i].error = Rejected("DescribeCertificate")
    /\ loc[i].result = None

\* C20: when two invocations of the certificate handler for different
\* regions are interleaved in one process, every certificate-authority and
\* token-service call of an invocation goes through a client created for
\* that invocation's own region.
C20_OwnRegionClients ==
  \A i \in live :
    IsCert(i) =>
      hist[i].clients \subseteq {event[i].ResourceProperties.CloudfrontCertificateRegion}

\* An Update of the certificate handler whose domain set differs from that
\* of OldResourceProperties
ChangedUpdate(i) ==
  IsCert(i) /\ Type(i) = "Update" /\ HasOld(i) /\ ~SameDomainSet(i)

\* C21: on an Update with a changed domain set the DeleteCertificate call for
\* the previous ARN is not issued before the newly requested certificate has
\* been observed ISSUED, and when the invocation fails the previous
\* certificate still exists.
C21_OldDeletedOnlyAfterIssued ==
  \A i \in live :
    ChangedUpdate(i) =>
      /\ hist[i].deletes # <<>> =>
           /\ hist[i].requestedArn \in hist[i].described
           /\ hist[i].lastStatus = "ISSUED"
      /\ (pc[i] = "failed" /\ event[i].PhysicalResourceId = OldArn) =>
           OldArn \in certs

\* C22: on an Update with a changed domain set the DeleteCertificate call for
\* the previous ARN is issued at most once and only after RequestCertificate
\* has returned the new ARN; when RequestCertificate is rejected no
\* DeleteCertificate call is issued and the invocation fails; when the event
\* carries no PhysicalResourceId no DeleteCertificate call is issued.
C22_OldDeletedOnceAfterRequest ==
  \A i \in live :
    ChangedUpdate(i) =>
      /\ Len(hist[i].deletes) <= 1
      /\ hist[i].deletes # <<>> =>
           /\ hist[i].deletes[1] = event[i].PhysicalResourceId
           /\ Len(hist[i].requests) = 1
           /\ hist[i].requestedArn # Undefined
      /\ "RequestCertificate" \in Range(hist[i].rejected) =>
           hist[i].deletes = <<>> /\ pc[i] = "failed"
      /\ event[i].PhysicalResourceId = Undefined => hist[i].deletes = <<>>

IsPrefix(s, t) == Len(s) <= Len(t) /\ SubSeq(t, 1, Len(s)) = s
\* The order of the calls of a Create, with and without a record to change
CreateOrder ==
  <<"requestCertificate", "describeOptions", "assumeRole", "listHostedZones",
    "changeRecords", "describeStatus">>
CreateOrderNoChange ==
  <<"requestCertificate", "describeOptions", "assumeRole", "listHostedZones",
    "describeStatus">>

\* C23: in a Create invocation of the certificate handler the calls are
\* issued in the order RequestCertificate, validation-options
\* DescribeCertificate, AssumeRole, ListHostedZones, ChangeResourceRecordSets,
\* issuance DescribeCertificate; a ChangeResourceRecordSets call is issued
\* only when a record value was observed for the first validation option,
\* and once an issuance DescribeCertificate is issued no
\* ChangeResourceRecordSets call is awaited or issued any more.
C23_CreateCallOrder ==
  \A i \in live :
    (IsCert(i) /\ Type(i) = "Create") =>
      /\ IsPrefix(hist[i].order, CreateOrder)
           \/ IsPrefix(hist[i].order, CreateOrderNoChange)
      /\ "changeRecords" \in Range(hist[i].order) =>
           /\ loc[i].validationOptions # <<>>
           /\ IsSome(loc[i].validationOptions[1].ResourceRecord)
      /\ "describeStatus" \in Range(hist[i].order) => pc[i] # "changeRecords"

\* A Create has gone through all six kinds of call and succeeded
C23_Witness ==
  \E i \in live :
    /\ IsCert(i) /\ Type(i) = "Create" /\ Succeeded(i)
    /\ hist[i].order = CreateOrder
    /\ Len(hist[i].changes) >= 2

\* The most DescribeCertificate calls the issuance poll can issue: one per
\* polling interval of the budget
MaxStatusPolls == CERTIFICATE_TIMEOUT \div CERTIFICATE_POLLING_INTERVAL

\* C24: the issuance poll terminates when its calls are answered: with calls
\* taking no time and each sleep taking 5000 ms of the 50000 ms budget it
\* issues at most 10 DescribeCertificate calls, and it returns without
\* sleeping as soon as a call reports ISSUED.
C24_IssuancePollTerminates ==
  /\ [](/\ hist[1].describeStatus <= MaxStatusPolls
        /\ hist[1].lastStatus = "ISSUED" => pc[1] \in Terminal)
  /\ (pc[1] = "describeStatus") ~> (pc[1] \in Terminal)

\* The issuance poll has used up its budget
C24_Witness ==
  /\ IsCert(1) /\ pc[1] \in Terminal
  /\ hist[1].describeStatus = MaxStatusPolls
  /\ hist[1].lastStatus = "PENDING_VALIDATION"
  /\ loc[1].elapsed = CERTIFICATE_TIMEOUT

ValidationFailed == "Certificate validation failed with status: "
\* The issuance poll of invocation i has returned a status to its caller
PollReturned(i) ==
  /\ hist[i].describeStatus > 0
  /\ \/ pc[i] = "done"
     \/ /\ handlerOf[i] = "refactored" /\ pc[i] = "failed"
        /\ Len(loc[i].error) >= Len(ValidationFailed)
        /\ SubSeq(loc[i].error, 1, Len(ValidationFailed)) = ValidationFailed
\* The status the poll returned, as the handler passes it on
ReturnedStatus(i) ==
  IF handlerOf[i] = "deployed" THEN Get(Result(i).Data).CertificateStatus
  ELSE IF pc[i] = "done" THEN "ISSUED"
  ELSE SubSeq(loc[i].error, Len(ValidationFailed) + 1, Len(loc[i].error))

\* C25: the issuance poll returns only when it has observed ISSUED or its
\* budget is used up; every other status observed, FAILED included, is
\* followed by a sleep and, while budget remains, another
\* DescribeCertificate call; the status returned is the last one observed.
C25_PollEndsOnIssuedOrBudget ==
  \A i \in live :
    (IsCert(i) /\ hist[i].describeStatus > 0) =>
      /\ PollReturned(i) =>
           /\ hist[i].lastStatus = "ISSUED" \/ loc[i].elapsed >= CERTIFICATE_TIMEOUT
           /\ ReturnedStatus(i) = hist[i].lastStatus
      /\ (pc[i] \in Terminal /\ hist[i].lastStatus \notin {"ISSUED", Undefined}) =>
           \/ PollReturned(i) /\ hist[i].describeStatus = MaxStatusPolls
           \/ pc[i] = "failed" /\ ~PollReturned(i)
                /\ hist[i].describeStatus * CERTIFICATE_POLLING_INTERVAL
                     = loc[i].elapsed + CERTIFICATE_POLLING_INTERVAL
      /\ pc[i] = "sleepStatus" =>
           /\ hist[i].lastStatus # "ISSUED"
           /\ hist[i].describeStatus * CERTIFICATE_POLLING_INTERVAL
                = loc[i].elapsed + CERTIFICATE_POLLING_INTERVAL
      /\ pc[i] = "describeStatus" =>
           /\ loc[i].elapsed < CERTIFICATE_TIMEOUT
           /\ hist[i].describeStatus * CERTIFICATE_POLLING_INTERVAL = loc[i].elapsed

\* The poll saw FAILED throughout, went on to the end of its budget and
\* returned FAILED
C25_Witness ==
  \E i \in live :
    /\ IsCert(i) /\ PollReturned(i)
    /\ hist[i].lastStatus = "FAILED"
    /\ hist[i].describeStatus = MaxStatusPolls
    /\ ReturnedStatus(i) = "FAILED"

\* The validation-options poll of invocation i has ended and handed its
\* options on: the call that follows it has been issued
OptionsPollEnded(i) == IsCert(i) /\ "assumeRole" \in Range(hist[i].order)

\* C26: when the validation-options poll has ended successfully the list of
\* validation options is not empty and every option in it, not only the
\* first, carries a resource record.
C26_AllOptionsCarryRecords ==
  \A i \in live :
    OptionsPollEnded(i) =>
      /\ loc[i].validationOptions # <<>>
      /\ \A k \in 1..Len(loc[i].validationOptions) :
           IsSome(loc[i].validationOptions[k].ResourceRecord)

Last(seq) == seq[Len(seq)]
\* Invocation i failed while in its validation-options poll
FailedInOptionsPoll(i) ==
  /\ IsCert(i) /\ pc[i] = "failed"
  /\ hist[i].order # <<>> /\ Last(hist[i].order) = "describeOptions"

\* C27: the certificate handler does not fail because the validation options
\* are not populated yet (no DomainValidationOptions field, an empty list, or
\* a first option without record value): it sleeps and polls again, so an
\* invocation fails in the validation-options poll only on a rejected
\* DescribeCertificate call.
C27_UnpopulatedOptionsPollAgain ==
  \A i \in live :
    /\ FailedInOptionsPoll(i) => loc[i].error = Rejected("DescribeCertificate")
    /\ (IsCert(i) /\ pc[i] = "sleepOptions") =>
         \/ loc[i].validationOptions = <<>>
         \/ ~IsSome(loc[i].validationOptions[1].ResourceRecord)

\* The change the certificate handler is to issue for validation option v
ValidationChange(i, v) ==
  [HostedZoneId |-> Get(ReconZone(i, v.DomainName)),
   Action |-> "UPSERT",
   ResourceRecordSet |->
     [Name |-> Get(v.ResourceRecord).Name,
      Type |-> Get(v.ResourceRecord).Type,
      TTL |-> Some(300),
      ResourceRecords |-> <<Get(v.ResourceRecord).Value>>,
      AliasTarget |-> None]]
\* One change per validation option from the k-th on that carries a record
\* and whose domain resolves to a zone, in the order of the options
RECURSIVE ValidationChanges(_, _)
ValidationChanges(i, k) ==
  LET vs == loc[i].validationOptions IN
  IF k > Len(vs) THEN <<>>
  ELSE IF IsSome(vs[k].ResourceRecord) /\ IsSome(ReconZone(i, vs[k].DomainName))
       THEN <<ValidationChange(i, vs[k])>> \o ValidationChanges(i, k + 1)
  ELSE ValidationChanges(i, k + 1)

\* C28: the certificate handler issues one ChangeResourceRecordSets call per
\* validation option that carries a resource record and whose domain
\* resolves to a hosted zone, in the order of the options, with the resolved
\* zone id, Action UPSERT, TTL 300 and the Name, Type and single Value of the
\* option's record, and no other ChangeResourceRecordSets call: the calls
\* issued are at any time the first of these, and all of them when the
\* record loop has run to its end.
C28_OneChangePerValidationOption ==
  \A i \in live :
    IsCert(i) =>
      /\ ~Listed(i) => hist[i].changes = <<>>
      /\ Listed(i) => IsPrefix(hist[i].changes, ValidationChanges(i, 1))
      /\ LoopDone(i) => hist[i].changes = ValidationChanges(i, 1)

\* The record loop has run to its end over three options, the first without
\* zone, and issued the changes of the other two
C28_Witness ==
  \E i \in live :
    /\ IsCert(i) /\ LoopDone(i)
    /\ Len(loc[i].validationOptions) = 3
    /\ ~IsSome(ReconZone(i, loc[i].validationOptions[1].DomainName))
    /\ Len(hist[i].changes) = 2
    /\ hist[i].changes = ValidationChanges(i, 1)

\* The domains of [DomainName, ...SubjectAlternativeNames] from the k-th on
\* that resolve to a hosted zone of the list invocation i was answered
RECURSIVE AliasResolved(_, _)
AliasResolved(i, k) ==
  LET ds == <<event[i].ResourceProperties.DomainName>>
              \o Get(event[i].ResourceProperties.SubjectAlternativeNames)
  IN IF k > Len(ds) THEN <<>>
     ELSE IF IsSome(Alias_findHostedZoneId(loc[i].hostedZones, ds[k]))
          THEN <<ds[k]>> \o AliasResolved(i, k + 1)
     ELSE AliasResolved(i, k + 1)
\* The UPSERT of the alias record of domain d
AliasChange(i, d) ==
  [HostedZoneId |-> Get(Alias_findHostedZoneId(loc[i].hostedZones, d)),
   Action |-> "UPSERT",
   ResourceRecordSet |->
     [Name |-> d, Type |-> "A", TTL |-> None, ResourceRecords |-> <<>>,
      AliasTarget |-> Some([HostedZoneId |-> "Z2FDTNDATAQYW2",
                            DNSName |-> event[i].ResourceProperties.CloudfrontURL,
                            EvaluateTargetHealth |-> FALSE])]]
AliasChanges(i) ==
  [k \in 1..Len(AliasResolved(i, 1)) |-> AliasChange(i, AliasResolved(i, 1)[k])]
IsAliasUpsert(i) ==
  handlerOf[i] = "alias" /\ Type(i) \in {"Create", "Update"}

\* C29: on Create or Update the alias-record handler issues, for each domain
\* of [DomainName, ...SubjectAlternativeNames] in order that resolves to a
\* hosted zone, one UPSERT of a type-A alias record named after the domain in
\* the resolved zone, with alias target zone Z2FDTNDATAQYW2 and DNSName
\* CloudfrontURL, and no other change; the Message of the result lists the
\* upserted domains in order, and the invocation succeeds when no domain
\* resolves.
C29_AliasUpsertPerResolvedDomain ==
  \A i \in live :
    IsAliasUpsert(i) =>
      /\ ~Listed(i) => hist[i].changes = <<>>
      /\ Listed(i) => IsPrefix(hist[i].changes, AliasChanges(i))
      /\ (Listed(i) /\ pc[i] = "failed") =>
           /\ Len(hist[i].changes) > 0
           /\ loc[i].error = Rejected("ChangeResourceRecordSets")
      /\ (Listed(i) /\ AliasResolved(i, 1) = <<>>) => Succeeded(i)
      /\ pc[i] = "done" =>
           /\ Succeeded(i)
           /\ hist[i].changes = AliasChanges(i)
           /\ Get(Result(i).Data).Message =
                "DNS records created/updated for: " \o Join(AliasResolved(i, 1), ", ")

\* The alias-record handler has succeeded on three domains of which the two
\* alternative names resolve and the domain name does not
C29_Witness ==
  \E i \in live :
    /\ IsAliasUpsert(i) /\ Succeeded(i)
    /\ Len(Alias_domains(i)) = 3
    /\ Len(AliasResolved(i, 1)) = 2
    /\ AliasResolved(i, 1) = SubSeq(Alias_domains(i), 2, 3)
    /\ hist[i].changes = AliasChanges(i)
\* The alias-record handler has succeeded with no domain upserted
C29_WitnessEmpty ==
  \E i \in live :
    /\ IsAliasUpsert(i) /\ Succeeded(i)
    /\ AliasResolved(i, 1) = <<>>
    /\ Get(Result(i).Data).Message = "DNS records created/updated for: "

\* The AssumeRole, ListHostedZones and ChangeResourceRecordSets calls of
\* invocation i in order of issue, a run of calls of one kind noted once
RoleAndZoneCalls(i) ==
  SelectSeq(hist[i].order,
            LAMBDA p : p \in {"assumeRole", "listHostedZones", "changeRecords"})
\* The zone ids the domains of invocation i resolve to in the zone list
\* ListHostedZones answered to invocation i
OwnZoneIds(i) ==
  {Get(ReconZone(i, d)) : d \in {x \in Range(ReconDomains(i)) : IsSome(ReconZone(i, x))}}

\* C30: an invocation that issues a ChangeResourceRecordSets call has before
\* it issued exactly one AssumeRole call and then exactly one ListHostedZones
\* call, and every change goes to a zone its domains resolve to in the list
\* that call returned; an invocation holds credentials and a zone list only
\* from its own AssumeRole and ListHostedZones calls, a later invocation in
\* the same process included.
C30_OwnRoleAndZoneList ==
  \A i \in live :
    /\ hist[i].assumeRole = 0 => loc[i].credentials = "none"
    /\ hist[i].listHostedZones = 0 => loc[i].hostedZones = <<>>
    /\ (pc[i] = "changeRecords" \/ hist[i].changes # <<>>) =>
         /\ hist[i].assumeRole = 1
         /\ hist[i].listHostedZones = 1
         /\ RoleAndZoneCalls(i) = <<"assumeRole", "listHostedZones", "changeRecords">>
         /\ \A c \in ChangesOf(hist[i]) : c.HostedZoneId \in OwnZoneIds(i)

\* Two invocations in a row have each assumed the role, listed the zones and
\* changed a record set, the second in another zone than the first as its
\* zone list was another
C30_Witness ==
  /\ \A i \in live :
       /\ pc[i] \in Terminal
       /\ hist[i].assumeRole = 1 /\ hist[i].listHostedZones = 1
       /\ Len(hist[i].changes) = 1
  /\ loc[1].hostedZones # loc[2].hostedZones
  /\ hist[1].changes[1].HostedZoneId # hist[2].changes[1].HostedZoneId

\* The Data attributes the stack reads from the certificate custom resource
\* with getAttString
StackAttributes == {"CertificateArn", "OldCertificateArn"}

\* Zone z owns domain d: d is the zone name without its trailing dot, or
\* ends with a dot followed by the zone name
Owns(z, d) ==
  \/ d \o "." = z.Name
  \/ EndsWith(d \o ".", "." \o z.Name)

\* C31: findHostedZoneId returns a zone only if that zone owns the domain;
\* for a domain no listed zone owns, one that merely ends with the
\* characters of a zone name included, it returns null.
C31_ZoneOwnsDomain ==
  \A i \in live : Listed(i) =>
    \A d \in Range(ReconDomains(i)) :
      LET zones == loc[i].hostedZones
          found == FindHostedZoneId(i, zones, d)
      IN IsSome(found) =>
           \E z \in Range(zones) :
             ZoneKey(z.Id) = ZoneKey(Get(found)) /\ Owns(z, d)

\* No call of invocation 1 was rejected
CallsSucceed == hist[1].rejected = <<>>
\* Invocation 1 has been shown a record value on the first validation option
FirstOptionPopulated ==
  /\ Len(loc[1].validationOptions) > 0
  /\ IsSome(loc[1].validationOptions[1].ResourceRecord)
\* Invocation 1 was reported ISSUED by a DescribeCertificate call of its
\* issuance poll
IssuedReported == hist[1].lastStatus = "ISSUED"
\* Invocation 1 has returned the success payload for the ARN it requested
ReturnedRequestedArn ==
  /\ Succeeded(1)
  /\ hist[1].requestedArn # Undefined
  /\ Result(1).PhysicalResourceId = hist[1].requestedArn
  /\ Get(Result(1).Data).CertificateArn = hist[1].requestedArn

C33_FailedInvocationDeletesRequested ==
  \A i \in live :
    (/\ IsCert(i) /\ Type(i) \in {"Create", "Update"}
     /\ pc[i] = "failed"
     /\ hist[i].requestedArn # Undefined) =>
      /\ hist[i].requestedArn \in Range(hist[i].deletes)
      /\ hist[i].requestedArn \notin certs

\* The payload defines Data attribute a
Defines(payload, a) ==
  /\ IsSome(payload.Data)
  /\ a \in DOMAIN Get(payload.Data)
  /\ Get(payload.Data)[a] # Undefined

\* C34: every success payload the certificate handler returns for Create or
\* Update defines the Data attributes CertificateArn and OldCertificateArn,
\* which the stack reads with getAttString.
C34_PayloadDefinesStackAttributes ==
  \A i \in live :
    (IsCert(i) /\ Type(i) \in {"Create", "Update"} /\ Succeeded(i)) =>
      \A a \in StackAttributes : Defines(Result(i), a)

\* The event of invocation i is an Update without OldResourceProperties
UpdateWithoutOld(i) == Type(i) = "Update" /\ ~IsSome(event[i].OldResourceProperties)

\* C35: an Update event of the certificate handler that carries no
\* OldResourceProperties makes the invocation fail, and no
\* RequestCertificate, DescribeCertificate, DeleteCertificate, AssumeRole or
\* DNS-service call is issued for it.
C35_UpdateWithoutOldFails ==
  \A i \in live :
    (IsCert(i) /\ UpdateWithoutOld(i)) =>
      /\ NoCall(i)
      /\ pc[i] \in {"start", "failed"}
      /\ pc[i] = "failed" =>
           loc[i].error = IF handlerOf[i] = "refactored"
                          THEN "OldResourceProperties is required for Update operation"
                          ELSE "TypeError"

\* An Update without OldResourceProperties has failed, the previous
\* certificate untouched
C35_Witness ==
  \E i \in live :
    /\ IsCert(i) /\ UpdateWithoutOld(i)
    /\ event[i].PhysicalResourceId = OldArn
    /\ pc[i] = "failed" /\ NoCall(i)
    /\ OldArn \in certs

\* Invocation i has returned its event's current DomainName as physical id
ReturnedDomainName(i) ==
  Succeeded(i) => Result(i).PhysicalResourceId = event[i].ResourceProperties.DomainName

\* C36: for every Create, Update and Delete event the alias-record handler
\* returns PhysicalResourceId equal to the event's current DomainName,
\* whatever PhysicalResourceId the event carries, so that an Update to
\* another DomainName returns another physical id than the previous one;
\* and no step of a later event removes a record set created before.
C36_AliasPhysicalIdIsDomainName ==
  /\ [](ReturnedDomainName(1) /\ ReturnedDomainName(2))
  /\ [][DnsKeys(dns) \subseteq DnsKeys(dns')]_vars

\* An Update to another DomainName has returned another physical id than
\* the one it carried, and the record set the Create wrote for the previous
\* domain is still there
C36_Witness ==
  /\ Succeeded(1) /\ Succeeded(2)
  /\ event[2].RequestType = "Update"
  /\ event[2].ResourceProperties.DomainName # event[1].ResourceProperties.DomainName
  /\ Result(2).PhysicalResourceId # event[2].PhysicalResourceId
  /\ Result(1).PhysicalResourceId = event[2].PhysicalResourceId
  /\ hist[2].changes # <<>>
  /\ \E x \in dns : x.set.Name = event[1].ResourceProperties.DomainName
  /\ event[1].ResourceProperties.DomainName \notin Range(Alias_domains(2))

====
